---- MODULE Spec2Model ----
(***************************************************************************)
(* Verification model of the Carp chess engine: bitboard board state,      *)
(* fully-legal move generation, copy-make make_move, FEN parsing, the      *)
(* transposition table, the iterative-deepening driver and the UCI         *)
(* controller / engine threads.                                            *)
(*                                                                         *)
(* A BitBoard (u64, bit i = square i) is modelled as the set of its        *)
(* squares; &, |, ! are set intersection, union and complement in Squares. *)
(***************************************************************************)
EXTENDS Integers, Sequences, FiniteSets, TLC

(***************************************************************************)
(* square.rs : squares A8=0 .. H1=63, files A..H = 0..7, ranks 8..1 = 0..7 *)
(***************************************************************************)
SQUARE_COUNT == 64
Squares == 0 .. (SQUARE_COUNT - 1)
NoSquare == 64

file(sq) == sq % 8
rank(sq) == sq \div 8
from_coords(f, r) == r * 8 + f

EMPTY_BB == {}
to_board(sq) == {sq}
get_bit(bb, sq) == sq \in bb
set_bit(bb, sq) == bb \cup {sq}
pop_bit(bb, sq) == bb \ {sq}
count_bits(bb) == Cardinality(bb)
NotBB(bb) == Squares \ bb

\* least significant set bit; trailing_zeros of 0 is 64 and Square::from masks with 63
lsb(bb) == IF bb = {} THEN 0 ELSE CHOOSE s \in bb : \A t \in bb : s <= t

SQUARE_STR ==
  << "a8", "b8", "c8", "d8", "e8", "f8", "g8", "h8",
     "a7", "b7", "c7", "d7", "e7", "f7", "g7", "h7",
     "a6", "b6", "c6", "d6", "e6", "f6", "g6", "h6",
     "a5", "b5", "c5", "d5", "e5", "f5", "g5", "h5",
     "a4", "b4", "c4", "d4", "e4", "f4", "g4", "h4",
     "a3", "b3", "c3", "d3", "e3", "f3", "g3", "h3",
     "a2", "b2", "c2", "d2", "e2", "f2", "g2", "h2",
     "a1", "b1", "c1", "d1", "e1", "f1", "g1", "h1" >>

\* the square named by a two-letter string (used to write positions down)
Sq(name) == (CHOOSE i \in 1..64 : SQUARE_STR[i] = name) - 1

(***************************************************************************)
(* piece.rs                                                                *)
(***************************************************************************)
White == 0
Black == 1
WPAWN == 0
BPAWN == 1
WKNIGHT == 2
BKNIGHT == 3
WBISHOP == 4
BBISHOP == 5
WROOK == 6
BROOK == 7
WQUEEN == 8
BQUEEN == 9
WKING == 10
BKING == 11
PIECE_COUNT == 12
NoPiece == 12
Pieces == 0 .. (PIECE_COUNT - 1)

NotColor(c) == 1 - c
color(p) == p % 2
pawn(c) == 0 + c
knight(c) == 2 + c
bishop(c) == 4 + c
rook(c) == 6 + c
queen(c) == 8 + c
king(c) == 10 + c

PIECES == << <<WPAWN, WKNIGHT, WBISHOP, WROOK, WQUEEN, WKING>>,
             <<BPAWN, BKNIGHT, BBISHOP, BROOK, BQUEEN, BKING>> >>
PROMOTIONS == << <<WQUEEN, WKNIGHT, WROOK, WBISHOP>>,
                 <<BQUEEN, BKNIGHT, BROOK, BBISHOP>> >>
PIECE_CHAR == << "P", "p", "N", "n", "B", "b", "R", "r", "Q", "q", "K", "k" >>

\* Piece::try_from(char): position of the char in PIECE_CHAR, or an error
piece_try_from(ch) ==
  IF \E i \in 1..12 : PIECE_CHAR[i] = ch
  THEN (CHOOSE i \in 1..12 : PIECE_CHAR[i] = ch) - 1
  ELSE NoPiece

(***************************************************************************)
(* square.rs : pawn push tables                                            *)
(***************************************************************************)
PUSH == << [sq \in Squares |-> IF rank(sq) \in 1..6 THEN sq - 8 ELSE 0],
           [sq \in Squares |-> IF rank(sq) \in 1..6 THEN sq + 8 ELSE 0] >>
DOUBLE_PUSH == << [f \in 0..7 |-> 32 + f], [f \in 0..7 |-> 24 + f] >>

(***************************************************************************)
(* tables : the attack oracle (leapers, ray-scan sliders, between, ranks)  *)
(***************************************************************************)
OnBoard(f, r) == f \in 0..7 /\ r \in 0..7

Leap(sq, deltas) ==
  { from_coords(file(sq) + d[1], rank(sq) + d[2]) :
      d \in { e \in deltas : OnBoard(file(sq) + e[1], rank(sq) + e[2]) } }

KnightDeltas == { <<1, 2>>, <<2, 1>>, <<-1, 2>>, <<-2, 1>>,
                  <<1, -2>>, <<2, -1>>, <<-1, -2>>, <<-2, -1>> }
KingDeltas == { <<1, 0>>, <<-1, 0>>, <<0, 1>>, <<0, -1>>,
                <<1, 1>>, <<1, -1>>, <<-1, 1>>, <<-1, -1>> }
DiagDirs == { <<1, 1>>, <<1, -1>>, <<-1, 1>>, <<-1, -1>> }
HVDirs == { <<1, 0>>, <<-1, 0>>, <<0, 1>>, <<0, -1>> }

KNIGHT_ATTACKS == [sq \in Squares |-> Leap(sq, KnightDeltas)]
KING_ATTACKS == [sq \in Squares |-> Leap(sq, KingDeltas)]
\* white pawns capture towards rank 8 (lower indices), black towards rank 1
PAWN_ATTACKS == << [sq \in Squares |-> Leap(sq, { <<-1, -1>>, <<1, -1>> })],
                   [sq \in Squares |-> Leap(sq, { <<-1, 1>>, <<1, 1>> })] >>

pawn_attacks(sq, c) == PAWN_ATTACKS[c + 1][sq]
knight_attacks(sq) == KNIGHT_ATTACKS[sq]
king_attacks(sq) == KING_ATTACKS[sq]

\* the squares of the ray leaving sq in direction d, nearest first
RAYS == [sq \in Squares |-> [d \in DiagDirs \cup HVDirs |->
          [i \in 1 .. Cardinality({ k \in 1..7 :
                        OnBoard(file(sq) + k * d[1], rank(sq) + k * d[2]) }) |->
             from_coords(file(sq) + i * d[1], rank(sq) + i * d[2])]]]

\* a slider sees every square of the ray up to and including the first blocker
RayAttack(r, blockers) ==
  { r[i] : i \in { k \in 1..Len(r) : \A j \in 1..(k - 1) : r[j] \notin blockers } }

bishop_attacks(sq, blockers) ==
  UNION { RayAttack(RAYS[sq][d], blockers) : d \in DiagDirs }
rook_attacks(sq, blockers) ==
  UNION { RayAttack(RAYS[sq][d], blockers) : d \in HVDirs }
queen_attacks(sq, blockers) ==
  bishop_attacks(sq, blockers) \cup rook_attacks(sq, blockers)

\* squares strictly between two aligned squares, empty otherwise
BETWEEN == [a \in Squares |-> [b \in Squares |->
             UNION { { RAYS[a][d][i] : i \in { k \in 1..Len(RAYS[a][d]) :
                          \E n \in (k + 1)..Len(RAYS[a][d]) : RAYS[a][d][n] = b } } :
                     d \in DiagDirs \cup HVDirs }]]
RANK_MASKS == [sq \in Squares |-> { t \in Squares : rank(t) = rank(sq) }]

START_RANKS == << 6, 1 >>
CASTLE_SQUARES == << 60, 4 >>
KINGSIDE_TARGETS == << 62, 6 >>
QUEENSIDE_TARGETS == << 58, 2 >>
KINGSIDE_OCCUPANCIES == << {61, 62}, {5, 6} >>
QUEENSIDE_OCCUPANCIES == << {57, 58, 59}, {1, 2, 3} >>
QUEENSIDE_THREATS == << {58, 59}, {2, 3} >>
\* indexed by the king's target square: (rook source, rook target)
ROOK_CASTLING_MOVE == [t \in Squares |->
  CASE t = 62 -> <<63, 61>>
    [] t = 58 -> <<56, 59>>
    [] t = 6 -> <<7, 5>>
    [] t = 2 -> <<0, 3>>
    [] OTHER -> <<0, 0>>]

(***************************************************************************)
(* castling rights : a 4-bit mask, here the set of its bits                *)
(***************************************************************************)
WK == 1
WQ == 2
BK == 4
BQ == 8
NO_RIGHTS == {}
AllRights == SUBSET {WK, WQ, BK, BQ}

RightsIndex(r) == (IF WK \in r THEN 1 ELSE 0) + (IF WQ \in r THEN 2 ELSE 0)
                + (IF BK \in r THEN 4 ELSE 0) + (IF BQ \in r THEN 8 ELSE 0)
has_kingside(r, c) == IF c = White THEN WK \in r ELSE BK \in r
has_queenside(r, c) == IF c = White THEN WQ \in r ELSE BQ \in r

\* the rights lost when a move touches square sq (king or rook home squares)
RightsTouched(sq) ==
  CASE sq = 60 -> {WK, WQ}
    [] sq = 63 -> {WK}
    [] sq = 56 -> {WQ}
    [] sq = 4 -> {BK, BQ}
    [] sq = 7 -> {BK}
    [] sq = 0 -> {BQ}
    [] OTHER -> {}
rights_update(r, src, tgt) == (r \ RightsTouched(src)) \ RightsTouched(tgt)

CASTLE_STR == << "-", "K", "Q", "KQ", "k", "Kk", "Qk", "KQk",
                 "q", "Kq", "Qq", "KQq", "kq", "Kkq", "Qkq", "KQkq" >>
\* CastlingRights::try_from(&str): the rights a castling field names, or an error
castle_try_from(str) ==
  IF \E i \in 1..16 : CASTLE_STR[i] = str
  THEN [ok |-> TRUE,
        rights |-> CHOOSE r \in AllRights :
                     CASTLE_STR[RightsIndex(r) + 1] = str]
  ELSE [ok |-> FALSE, rights |-> NO_RIGHTS]

(***************************************************************************)
(* zobrist : a hash is the XOR of independent keys, modelled as the set of *)
(* keys toggled an odd number of times (XOR = symmetric difference)        *)
(***************************************************************************)
NULL_HASH == {}
PieceKey(p, sq) == p * 64 + sq
CastleKey(r) == 768 + RightsIndex(r)
SideKey == 784
EpKey(sq) == 785 + sq

Xor(h, k) == (h \ k) \cup (k \ h)
toggle_piece(h, p, sq) == Xor(h, {PieceKey(p, sq)})
toggle_side(h) == Xor(h, {SideKey})
toggle_castle(h, r) == Xor(h, {CastleKey(r)})
swap_castle(h, old, new) == Xor(Xor(h, {CastleKey(old)}), {CastleKey(new)})
toggle_ep(h, sq) == Xor(h, {EpKey(sq)})

(***************************************************************************)
(* board.rs : Board                                                        *)
(***************************************************************************)
BoardNew ==
  [ pieces |-> [p \in Pieces |-> EMPTY_BB],
    side_occupancy |-> << EMPTY_BB, EMPTY_BB >>,
    occupancy |-> EMPTY_BB,
    side |-> White,
    castling_rights |-> NO_RIGHTS,
    en_passant |-> NoSquare,
    halfmoves |-> 0,
    plies_from_null |-> 0,
    hash |-> NULL_HASH ]

\* remove_piece that forgets to toggle the Zobrist key
remove_piece_NoHash(b, piece, square) ==
  [ b EXCEPT !.pieces[piece] = pop_bit(@, square),
             !.occupancy = pop_bit(@, square),
             !.side_occupancy[color(piece) + 1] = pop_bit(@, square) ]

\* remove_piece that forgets the side occupancy
remove_piece_KeepsSide(b, piece, square) ==
  [ b EXCEPT !.pieces[piece] = pop_bit(@, square),
             !.occupancy = pop_bit(@, square),
             !.hash = toggle_piece(@, piece, square) ]

remove_piece(b, piece, square) ==
  [ b EXCEPT !.pieces[piece] = pop_bit(@, square),
             !.occupancy = pop_bit(@, square),
             !.side_occupancy[color(piece) + 1] = pop_bit(@, square),
             !.hash = toggle_piece(@, piece, square) ]

set_piece(b, piece, square) ==
  [ b EXCEPT !.pieces[piece] = set_bit(@, square),
             !.occupancy = set_bit(@, square),
             !.side_occupancy[color(piece) + 1] = set_bit(@, square),
             !.hash = toggle_piece(@, piece, square) ]

own_pawns(b) == b.pieces[pawn(b.side)]
opp_pawns(b) == b.pieces[pawn(NotColor(b.side))]
own_knights(b) == b.pieces[knight(b.side)]
opp_knights(b) == b.pieces[knight(NotColor(b.side))]
own_bishops(b) == b.pieces[bishop(b.side)]
opp_bishops(b) == b.pieces[bishop(NotColor(b.side))]
own_rooks(b) == b.pieces[rook(b.side)]
opp_rooks(b) == b.pieces[rook(NotColor(b.side))]
own_queens(b) == b.pieces[queen(b.side)]
opp_queens(b) == b.pieces[queen(NotColor(b.side))]
own_king(b) == b.pieces[king(b.side)]
opp_king(b) == b.pieces[king(NotColor(b.side))]
own_occupancy(b) == b.side_occupancy[b.side + 1]
opp_occupancy(b) == b.side_occupancy[NotColor(b.side) + 1]
opp_queen_bishop(b) == opp_queens(b) \cup opp_bishops(b)
opp_queen_rook(b) == opp_queens(b) \cup opp_rooks(b)

(***************************************************************************)
(* FEN parsing.  A FEN is the sequence of its whitespace-separated fields; *)
(* the placement field is the sequence of its characters, the halfmove     *)
(* field the sequence of its characters, the other fields are strings.     *)
(***************************************************************************)
DigitValue(ch) ==
  CASE ch = "0" -> 0 [] ch = "1" -> 1 [] ch = "2" -> 2 [] ch = "3" -> 3
    [] ch = "4" -> 4 [] ch = "5" -> 5 [] ch = "6" -> 6 [] ch = "7" -> 7
    [] ch = "8" -> 8 [] ch = "9" -> 9 [] OTHER -> -1

\* str::parse::<usize>: an optional '+', then one or more decimal digits
RECURSIVE ParseDigits(_, _, _)
ParseDigits(chars, i, acc) ==
  IF i > Len(chars) THEN acc
  ELSE IF DigitValue(chars[i]) < 0 THEN -1
  ELSE ParseDigits(chars, i + 1, acc * 10 + DigitValue(chars[i]))
parse_usize(chars) ==
  LET digits == IF Len(chars) > 0 /\ chars[1] = "+" THEN Tail(chars) ELSE chars
  IN IF Len(digits) = 0 THEN -1 ELSE ParseDigits(digits, 1, 0)

\* Square::from_str: the index of a square name, or an error
square_from_str(str) ==
  IF \E i \in 1..64 : SQUARE_STR[i] = str THEN Sq(str) ELSE NoSquare

\* the loop over the placement characters; st carries board, file, rank,
\* token_count and the error flag
RECURSIVE ParsePlacement(_, _, _)
ParsePlacement(chars, i, st) ==
  IF i > Len(chars) \/ st.err THEN st
  ELSE LET token == chars[i] IN
    IF token = "/" THEN
      IF st.token_count # 8 THEN [st EXCEPT !.err = TRUE]
      ELSE ParsePlacement(chars, i + 1,
             [st EXCEPT !.rank = (@ + 1) % 8, !.token_count = 0])
    ELSE IF DigitValue(token) \in 1..8 THEN
      ParsePlacement(chars, i + 1,
        [st EXCEPT !.file = (@ + DigitValue(token)) % 8,
                   !.token_count = @ + DigitValue(token)])
    ELSE IF piece_try_from(token) = NoPiece THEN [st EXCEPT !.err = TRUE]
    ELSE ParsePlacement(chars, i + 1,
           [st EXCEPT !.board = set_piece(@, piece_try_from(token),
                                          from_coords(st.file, st.rank)),
                      !.file = (@ + 1) % 8,
                      !.token_count = @ + 1])

Err == [ok |-> FALSE, board |-> BoardNew]

\* impl TryFrom<&str> for Board
try_from(value) ==
  LET fen == IF Len(value) > 6 THEN SubSeq(value, 1, 6) ELSE value IN
  IF Len(fen) # 6 THEN Err
  ELSE
    LET st == ParsePlacement(fen[1], 1,
                [board |-> BoardNew, file |-> 0, rank |-> 0,
                 token_count |-> 0, err |-> FALSE])
        rights == castle_try_from(fen[3])
        ep_square == square_from_str(fen[4])
        hm == parse_usize(fen[5])
        b1 == st.board
        b2 == IF fen[2] = "w"
              THEN [b1 EXCEPT !.side = White, !.hash = toggle_side(@)]
              ELSE [b1 EXCEPT !.side = Black]
        b3 == [b2 EXCEPT !.castling_rights = rights.rights,
                         !.hash = toggle_castle(@, rights.rights)]
        b4 == IF fen[4] = "-" THEN [b3 EXCEPT !.en_passant = NoSquare]
              ELSE [b3 EXCEPT !.en_passant = ep_square,
                              !.hash = toggle_ep(@, ep_square)]
    IN IF st.err \/ st.token_count # 8 THEN Err
       ELSE IF fen[2] \notin {"w", "b"} THEN Err
       ELSE IF ~rights.ok THEN Err
       ELSE IF fen[4] # "-" /\ ep_square = NoSquare THEN Err
       ELSE IF hm < 0 THEN Err
       ELSE [ok |-> TRUE, board |-> [b4 EXCEPT !.halfmoves = hm]]

(***************************************************************************)
(* moves / move_list : a Move is the record of its packed fields; a        *)
(* MoveList is modelled as the set of the moves pushed onto it             *)
(***************************************************************************)
Move(src, tgt, piece, capture, promotion, cap, dp, ep, castle) ==
  [ src |-> src, tgt |-> tgt, piece |-> piece, capture |-> capture,
    promotion |-> promotion, is_capture |-> cap, is_double_push |-> dp,
    is_enpassant |-> ep, is_castle |-> castle ]
is_promotion(m) == m.promotion # NoPiece

PromotionRank(side) == IF side = White THEN 0 ELSE 7
Promos(side) == { PROMOTIONS[side + 1][i] : i \in 1..4 }

add_capture(src, tgt, piece, captured) ==
  { Move(src, tgt, piece, captured, NoPiece, TRUE, FALSE, FALSE, FALSE) }
add_quiet(src, tgt, piece, castle) ==
  { Move(src, tgt, piece, NoPiece, NoPiece, FALSE, FALSE, FALSE, castle = 1) }
\* pawn moves reaching the last rank expand into the four promotions
add_pawn_quiet(src, tgt, side, double_push) ==
  IF rank(tgt) = PromotionRank(side)
  THEN { Move(src, tgt, pawn(side), NoPiece, pr, FALSE, FALSE, FALSE, FALSE) :
           pr \in Promos(side) }
  ELSE { Move(src, tgt, pawn(side), NoPiece, NoPiece, FALSE, double_push = 1,
              FALSE, FALSE) }
add_pawn_capture(src, tgt, side, captured) ==
  IF rank(tgt) = PromotionRank(side)
  THEN { Move(src, tgt, pawn(side), captured, pr, TRUE, FALSE, FALSE, FALSE) :
           pr \in Promos(side) }
  ELSE { Move(src, tgt, pawn(side), captured, NoPiece, TRUE, FALSE, FALSE, FALSE) }
add_enpassant(src, tgt, side) ==
  { Move(src, tgt, pawn(side), pawn(NotColor(side)), NoPiece, TRUE, FALSE, TRUE,
         FALSE) }

\* Move::to_string: source square, target square, promotion letter
PromoChar(p) == IF p = NoPiece THEN ""
                ELSE PIECE_CHAR[(p - color(p)) + 2]
move_to_string(m) == << SQUARE_STR[m.src + 1], SQUARE_STR[m.tgt + 1],
                        PromoChar(m.promotion) >>

(***************************************************************************)
(* board.rs : make_move                                                    *)
(***************************************************************************)
\* make_move that leaves the old en-passant square in place
make_move_KeepsEnPassant(b, m) ==
  LET src == m.src
      tgt == m.tgt
      piece == m.piece
      n1 == [b EXCEPT !.halfmoves = @ + 1, !.plies_from_null = @ + 1]
      n2 == remove_piece(n1, piece, src)
      n3 == IF piece = WPAWN \/ piece = BPAWN
            THEN [n2 EXCEPT !.halfmoves = 0] ELSE n2
      n4 == IF m.is_enpassant
            THEN remove_piece(n3, m.capture, PUSH[NotColor(b.side) + 1][tgt])
            ELSE IF m.is_capture
            THEN [remove_piece(n3, m.capture, tgt) EXCEPT !.halfmoves = 0]
            ELSE IF m.is_castle
            THEN set_piece(remove_piece(n3, rook(b.side), ROOK_CASTLING_MOVE[tgt][1]),
                           rook(b.side), ROOK_CASTLING_MOVE[tgt][2])
            ELSE n3
      n5 == IF is_promotion(m) THEN set_piece(n4, m.promotion, tgt)
            ELSE set_piece(n4, piece, tgt)
      n6 == n5
      n7 == IF m.is_double_push
            THEN [n6 EXCEPT !.en_passant = PUSH[b.side + 1][src],
                            !.hash = toggle_ep(@, PUSH[b.side + 1][src])]
            ELSE n6
      new_rights == rights_update(b.castling_rights, src, tgt)
  IN [n7 EXCEPT !.castling_rights = new_rights,
                !.hash = toggle_side(swap_castle(@, b.castling_rights, new_rights)),
                !.side = NotColor(b.side)]

\* make_move that does not reset the halfmove clock on a capture
make_move_CaptureKeepsClock(b, m) ==
  LET src == m.src
      tgt == m.tgt
      piece == m.piece
      n1 == [b EXCEPT !.halfmoves = @ + 1, !.plies_from_null = @ + 1]
      n2 == remove_piece(n1, piece, src)
      n3 == IF piece = WPAWN \/ piece = BPAWN
            THEN [n2 EXCEPT !.halfmoves = 0] ELSE n2
      n4 == IF m.is_enpassant
            THEN remove_piece(n3, m.capture, PUSH[NotColor(b.side) + 1][tgt])
            ELSE IF m.is_capture
            THEN remove_piece(n3, m.capture, tgt)
            ELSE IF m.is_castle
            THEN set_piece(remove_piece(n3, rook(b.side), ROOK_CASTLING_MOVE[tgt][1]),
                           rook(b.side), ROOK_CASTLING_MOVE[tgt][2])
            ELSE n3
      n5 == IF is_promotion(m) THEN set_piece(n4, m.promotion, tgt)
            ELSE set_piece(n4, piece, tgt)
      n6 == IF n5.en_passant # NoSquare
            THEN [n5 EXCEPT !.en_passant = NoSquare,
                            !.hash = toggle_ep(@, n5.en_passant)]
            ELSE n5
      n7 == IF m.is_double_push
            THEN [n6 EXCEPT !.en_passant = PUSH[b.side + 1][src],
                            !.hash = toggle_ep(@, PUSH[b.side + 1][src])]
            ELSE n6
      new_rights == rights_update(b.castling_rights, src, tgt)
  IN [n7 EXCEPT !.castling_rights = new_rights,
                !.hash = toggle_side(swap_castle(@, b.castling_rights, new_rights)),
                !.side = NotColor(b.side)]

make_move(b, m) ==
  LET src == m.src
      tgt == m.tgt
      piece == m.piece
      n1 == [b EXCEPT !.halfmoves = @ + 1, !.plies_from_null = @ + 1]
      n2 == remove_piece(n1, piece, src)
      n3 == IF piece = WPAWN \/ piece = BPAWN
            THEN [n2 EXCEPT !.halfmoves = 0] ELSE n2
      n4 == IF m.is_enpassant
            THEN remove_piece(n3, m.capture, PUSH[NotColor(b.side) + 1][tgt])
            ELSE IF m.is_capture
            THEN [remove_piece(n3, m.capture, tgt) EXCEPT !.halfmoves = 0]
            ELSE IF m.is_castle
            THEN set_piece(remove_piece(n3, rook(b.side), ROOK_CASTLING_MOVE[tgt][1]),
                           rook(b.side), ROOK_CASTLING_MOVE[tgt][2])
            ELSE n3
      n5 == IF is_promotion(m) THEN set_piece(n4, m.promotion, tgt)
            ELSE set_piece(n4, piece, tgt)
      n6 == IF n5.en_passant # NoSquare
            THEN [n5 EXCEPT !.en_passant = NoSquare,
                            !.hash = toggle_ep(@, n5.en_passant)]
            ELSE n5
      n7 == IF m.is_double_push
            THEN [n6 EXCEPT !.en_passant = PUSH[b.side + 1][src],
                            !.hash = toggle_ep(@, PUSH[b.side + 1][src])]
            ELSE n6
      new_rights == rights_update(b.castling_rights, src, tgt)
  IN [n7 EXCEPT !.castling_rights = new_rights,
                !.hash = toggle_side(swap_castle(@, b.castling_rights, new_rights)),
                !.side = NotColor(b.side)]

(***************************************************************************)
(* board.rs : move generation                                              *)
(***************************************************************************)
map_king_attackers(b) ==
  LET square == lsb(own_king(b)) IN
       (opp_pawns(b) \cap pawn_attacks(square, b.side))
  \cup (opp_knights(b) \cap knight_attacks(square))
  \cup (opp_queen_bishop(b) \cap bishop_attacks(square, b.occupancy))
  \cup (opp_queen_rook(b) \cap rook_attacks(square, b.occupancy))
  \cup (opp_king(b) \cap king_attacks(square))

\* threats computed with the king still blocking the sliders
map_king_threats_KeepsKing(b) ==
  LET occupancies == b.occupancy
  IN   UNION { pawn_attacks(sq, NotColor(b.side)) : sq \in opp_pawns(b) }
  \cup UNION { knight_attacks(sq) : sq \in opp_knights(b) }
  \cup UNION { bishop_attacks(sq, occupancies) : sq \in opp_queen_bishop(b) }
  \cup UNION { rook_attacks(sq, occupancies) : sq \in opp_queen_rook(b) }
  \cup UNION { king_attacks(sq) : sq \in opp_king(b) }

map_king_threats(b) ==
  LET king_square == lsb(own_king(b))
      occupancies == pop_bit(b.occupancy, king_square)
  IN   UNION { pawn_attacks(sq, NotColor(b.side)) : sq \in opp_pawns(b) }
  \cup UNION { knight_attacks(sq) : sq \in opp_knights(b) }
  \cup UNION { bishop_attacks(sq, occupancies) : sq \in opp_queen_bishop(b) }
  \cup UNION { rook_attacks(sq, occupancies) : sq \in opp_queen_rook(b) }
  \cup UNION { king_attacks(sq) : sq \in opp_king(b) }

\* pin masks that leave out the square of the pinning piece
map_pins_WithoutPinner(b) ==
  LET king_square == lsb(own_king(b))
      possible_diag_pins == bishop_attacks(king_square, b.occupancy) \cap own_occupancy(b)
      possible_hv_pins == rook_attacks(king_square, b.occupancy) \cap own_occupancy(b)
      remove_diag_blockers == b.occupancy \ possible_diag_pins
      remove_hv_blockers == b.occupancy \ possible_hv_pins
      diag_attackers ==
        bishop_attacks(king_square, remove_diag_blockers) \cap opp_queen_bishop(b)
      hv_attackers == rook_attacks(king_square, remove_hv_blockers) \cap opp_queen_rook(b)
      diag_pins == UNION { BETWEEN[sq][king_square] : sq \in diag_attackers }
      hv_pins == UNION { BETWEEN[sq][king_square] : sq \in hv_attackers }
      pinned == (diag_pins \cup hv_pins) \cap own_occupancy(b)
  IN << pinned, diag_pins, hv_pins >>

\* <<pinned, diag_pins, hv_pins>>
map_pins(b) ==
  LET king_square == lsb(own_king(b))
      possible_diag_pins == bishop_attacks(king_square, b.occupancy) \cap own_occupancy(b)
      possible_hv_pins == rook_attacks(king_square, b.occupancy) \cap own_occupancy(b)
      remove_diag_blockers == b.occupancy \ possible_diag_pins
      remove_hv_blockers == b.occupancy \ possible_hv_pins
      diag_attackers ==
        bishop_attacks(king_square, remove_diag_blockers) \cap opp_queen_bishop(b)
      hv_attackers == rook_attacks(king_square, remove_hv_blockers) \cap opp_queen_rook(b)
      diag_pins == UNION { BETWEEN[sq][king_square] \cup to_board(sq) : sq \in diag_attackers }
      hv_pins == UNION { BETWEEN[sq][king_square] \cup to_board(sq) : sq \in hv_attackers }
      pinned == (diag_pins \cup hv_pins) \cap own_occupancy(b)
  IN << pinned, diag_pins, hv_pins >>

\* the opponent's piece standing on tgt; find() on the six opposing pieces
\* and unwrap(), which panics when there is none
HasCapturedPiece(b, tgt) ==
  \E i \in 1..6 : tgt \in b.pieces[PIECES[NotColor(b.side) + 1][i]]
get_captured_piece(b, tgt) ==
  IF ~HasCapturedPiece(b, tgt) THEN NoPiece
  ELSE
    LET i == CHOOSE i \in 1..6 :
               /\ tgt \in b.pieces[PIECES[NotColor(b.side) + 1][i]]
               /\ \A j \in 1..(i - 1) : tgt \notin b.pieces[PIECES[NotColor(b.side) + 1][j]]
    IN PIECES[NotColor(b.side) + 1][i]

add_moves(b, piece, source, attacks) ==
  UNION { IF get_bit(opp_occupancy(b), target)
          THEN add_capture(source, target, piece, get_captured_piece(b, target))
          ELSE add_quiet(source, target, piece, 0) : target \in attacks }

add_captures(b, piece, source, attacks) ==
  UNION { add_capture(source, target, piece, get_captured_piece(b, target)) :
            target \in attacks }

\* king moves that do not avoid the threatened squares
generate_king_moves_IgnoresThreats(b, threats) ==
  LET king_square == lsb(own_king(b))
      attacks == king_attacks(king_square) \ own_occupancy(b)
  IN add_moves(b, king(b.side), king_square, attacks)

generate_king_moves(b, threats) ==
  LET king_square == lsb(own_king(b))
      attacks == (king_attacks(king_square) \ own_occupancy(b)) \ threats
  IN add_moves(b, king(b.side), king_square, attacks)

\* king captures that do not avoid the threatened squares
generate_king_captures_IgnoresThreats(b, threats) ==
  LET king_square == lsb(own_king(b))
      attacks == king_attacks(king_square) \cap opp_occupancy(b)
  IN add_captures(b, king(b.side), king_square, attacks)

generate_king_captures(b, threats) ==
  LET king_square == lsb(own_king(b))
      attacks == (king_attacks(king_square) \cap opp_occupancy(b)) \ threats
  IN add_captures(b, king(b.side), king_square, attacks)

\* queenside castling refused when any square between king and rook is threatened
generate_castling_moves_ThreatsAsOccupancy(b, threats) ==
  LET side == b.side + 1
      source == CASTLE_SQUARES[side]
  IN (IF /\ has_kingside(b.castling_rights, b.side)
         /\ (threats \cup b.occupancy) \cap KINGSIDE_OCCUPANCIES[side] = EMPTY_BB
      THEN add_quiet(source, KINGSIDE_TARGETS[side], king(b.side), 1)
      ELSE {})
     \cup
     (IF /\ has_queenside(b.castling_rights, b.side)
         /\ (threats \cup b.occupancy) \cap QUEENSIDE_OCCUPANCIES[side] = EMPTY_BB
      THEN add_quiet(source, QUEENSIDE_TARGETS[side], king(b.side), 1)
      ELSE {})

\* kingside castling that only asks for empty squares
generate_castling_moves_KingsideUnsafe(b, threats) ==
  LET side == b.side + 1
      source == CASTLE_SQUARES[side]
  IN (IF /\ has_kingside(b.castling_rights, b.side)
         /\ b.occupancy \cap KINGSIDE_OCCUPANCIES[side] = EMPTY_BB
      THEN add_quiet(source, KINGSIDE_TARGETS[side], king(b.side), 1)
      ELSE {})
     \cup
     (IF /\ has_queenside(b.castling_rights, b.side)
         /\ b.occupancy \cap QUEENSIDE_OCCUPANCIES[side] = EMPTY_BB
         /\ threats \cap QUEENSIDE_THREATS[side] = EMPTY_BB
      THEN add_quiet(source, QUEENSIDE_TARGETS[side], king(b.side), 1)
      ELSE {})

generate_castling_moves(b, threats) ==
  LET side == b.side + 1
      source == CASTLE_SQUARES[side]
  IN (IF /\ has_kingside(b.castling_rights, b.side)
         /\ (threats \cup b.occupancy) \cap KINGSIDE_OCCUPANCIES[side] = EMPTY_BB
      THEN add_quiet(source, KINGSIDE_TARGETS[side], king(b.side), 1)
      ELSE {})
     \cup
     (IF /\ has_queenside(b.castling_rights, b.side)
         /\ b.occupancy \cap QUEENSIDE_OCCUPANCIES[side] = EMPTY_BB
         /\ threats \cap QUEENSIDE_THREATS[side] = EMPTY_BB
      THEN add_quiet(source, QUEENSIDE_TARGETS[side], king(b.side), 1)
      ELSE {})

PawnQuietsFrom(b, source, blocker_mask, hv_pins) ==
  LET side == b.side + 1
      target == PUSH[side][source]
      target2 == DOUBLE_PUSH[side][file(source)]
  IN IF get_bit(hv_pins, source) /\ ~get_bit(hv_pins, target) THEN {}
     ELSE IF get_bit(b.occupancy, target) THEN {}
     ELSE (IF get_bit(blocker_mask, target)
           THEN add_pawn_quiet(source, target, b.side, 0) ELSE {})
          \cup
          (IF /\ rank(source) = START_RANKS[side]
              /\ ~get_bit(b.occupancy, target2)
              /\ get_bit(blocker_mask, target2)
           THEN add_pawn_quiet(source, target2, b.side, 1) ELSE {})

generate_pawn_quiets(b, blocker_mask, diag_pins, hv_pins) ==
  UNION { PawnQuietsFrom(b, source, blocker_mask, hv_pins) :
            source \in own_pawns(b) \ diag_pins }

\* en-passant captures that never look along the rank of the king
PawnEnPassantFrom_NoRankTest(b, source, attacks, blocker_mask, capture_mask) ==
  IF b.en_passant = NoSquare THEN {}
  ELSE
    LET ep_square == b.en_passant
        ep_target == PUSH[NotColor(b.side) + 1][ep_square]
    IN IF /\ attacks \cap to_board(ep_square) # EMPTY_BB
          /\ (get_bit(capture_mask, ep_target) \/ get_bit(blocker_mask, ep_square))
       THEN
         LET ep_rank == RANK_MASKS[ep_target]
             occupancy == (b.occupancy \ to_board(source)) \ to_board(ep_target)
             king_square == lsb(own_king(b))
             king_ray == rook_attacks(king_square, occupancy) \cap ep_rank
         IN add_enpassant(source, ep_square, b.side)
       ELSE {}

\* the en-passant part of the loop body of generate_pawn_captures
PawnEnPassantFrom(b, source, attacks, blocker_mask, capture_mask) ==
  IF b.en_passant = NoSquare THEN {}
  ELSE
    LET ep_square == b.en_passant
        ep_target == PUSH[NotColor(b.side) + 1][ep_square]
    IN IF /\ attacks \cap to_board(ep_square) # EMPTY_BB
          /\ (get_bit(capture_mask, ep_target) \/ get_bit(blocker_mask, ep_square))
       THEN
         LET ep_rank == RANK_MASKS[ep_target]
             occupancy == (b.occupancy \ to_board(source)) \ to_board(ep_target)
             king_square == lsb(own_king(b))
             king_ray == rook_attacks(king_square, occupancy) \cap ep_rank
         IN IF /\ ep_rank \cap own_king(b) # EMPTY_BB
               /\ ep_rank \cap opp_queen_rook(b) # EMPTY_BB
               /\ king_ray \cap opp_queen_rook(b) # EMPTY_BB
            THEN {}
            ELSE add_enpassant(source, ep_square, b.side)
       ELSE {}

PawnCapturesFrom(b, source, blocker_mask, capture_mask, diag_pins) ==
  LET check_mask == capture_mask \cup blocker_mask
      attacks == IF get_bit(diag_pins, source)
                 THEN pawn_attacks(source, b.side) \cap diag_pins
                 ELSE pawn_attacks(source, b.side)
      captures == (attacks \cap check_mask) \cap opp_occupancy(b)
  IN UNION { add_pawn_capture(source, target, b.side, get_captured_piece(b, target)) :
               target \in captures }
     \cup PawnEnPassantFrom(b, source, attacks, blocker_mask, capture_mask)

generate_pawn_captures(b, blocker_mask, capture_mask, diag_pins, hv_pins) ==
  UNION { PawnCapturesFrom(b, source, blocker_mask, capture_mask, diag_pins) :
            source \in own_pawns(b) \ hv_pins }

generate_knight_moves(b, check_mask, pinned) ==
  UNION { add_moves(b, knight(b.side), source,
                    (knight_attacks(source) \cap check_mask) \ own_occupancy(b)) :
            source \in own_knights(b) \ pinned }

generate_knight_captures(b, check_mask, pinned) ==
  UNION { add_captures(b, knight(b.side), source,
                       (knight_attacks(source) \cap check_mask) \cap opp_occupancy(b)) :
            source \in own_knights(b) \ pinned }

BishopTargets(b, source, check_mask, diag_pins, keep) ==
  LET attacks == (bishop_attacks(source, b.occupancy) \cap check_mask) \cap keep
  IN IF get_bit(diag_pins, source) THEN attacks \cap diag_pins ELSE attacks

generate_bishop_moves(b, check_mask, diag_pins, hv_pins) ==
  UNION { add_moves(b, bishop(b.side), source,
                    BishopTargets(b, source, check_mask, diag_pins,
                                  NotBB(own_occupancy(b)))) :
            source \in own_bishops(b) \ hv_pins }

generate_bishop_captures(b, check_mask, diag_pins, hv_pins) ==
  UNION { add_captures(b, bishop(b.side), source,
                       BishopTargets(b, source, check_mask, diag_pins,
                                     opp_occupancy(b))) :
            source \in own_bishops(b) \ hv_pins }

RookTargets(b, source, check_mask, hv_pins, keep) ==
  LET attacks == (rook_attacks(source, b.occupancy) \cap check_mask) \cap keep
  IN IF get_bit(hv_pins, source) THEN attacks \cap hv_pins ELSE attacks

generate_rook_moves(b, check_mask, diag_pins, hv_pins) ==
  UNION { add_moves(b, rook(b.side), source,
                    RookTargets(b, source, check_mask, hv_pins,
                                NotBB(own_occupancy(b)))) :
            source \in own_rooks(b) \ diag_pins }

generate_rook_captures(b, check_mask, diag_pins, hv_pins) ==
  UNION { add_captures(b, rook(b.side), source,
                       RookTargets(b, source, check_mask, hv_pins,
                                   opp_occupancy(b))) :
            source \in own_rooks(b) \ diag_pins }

QueenTargets(b, source, check_mask, diag_pins, hv_pins, keep) ==
  LET attacks == IF get_bit(diag_pins, source)
                 THEN bishop_attacks(source, b.occupancy) \cap diag_pins
                 ELSE IF get_bit(hv_pins, source)
                 THEN rook_attacks(source, b.occupancy) \cap hv_pins
                 ELSE queen_attacks(source, b.occupancy)
  IN (attacks \cap check_mask) \cap keep

generate_queen_moves(b, check_mask, diag_pins, hv_pins) ==
  UNION { add_moves(b, queen(b.side), source,
                    QueenTargets(b, source, check_mask, diag_pins, hv_pins,
                                 NotBB(own_occupancy(b)))) :
            source \in own_queens(b) }

generate_queen_captures(b, check_mask, diag_pins, hv_pins) ==
  UNION { add_captures(b, queen(b.side), source,
                       QueenTargets(b, source, check_mask, diag_pins, hv_pins,
                                    opp_occupancy(b))) :
            source \in own_queens(b) }

\* generate_moves that goes on to the other pieces in a double check
generate_moves_NoDoubleCheckReturn(b) ==
  LET attackers == map_king_attackers(b)
      threats == map_king_threats(b)
      attacker_count == count_bits(attackers)
      king_square == lsb(own_king(b))
      blocker_mask == IF attacker_count = 1
                      THEN BETWEEN[king_square][lsb(attackers)] ELSE Squares
      capture_mask == IF attacker_count = 1 THEN attackers ELSE Squares
      king_moves == generate_king_moves(b, threats)
  IN IF attacker_count > 2 THEN king_moves
     ELSE
       LET pins == map_pins(b)
           pinned == pins[1]
           diag == pins[2]
           hv == pins[3]
           check_mask == blocker_mask \cup capture_mask
       IN king_moves
          \cup (IF b.castling_rights # NO_RIGHTS /\ attacker_count = 0
                THEN generate_castling_moves(b, threats) ELSE {})
          \cup generate_pawn_captures(b, blocker_mask, capture_mask, diag, hv)
          \cup generate_pawn_quiets(b, blocker_mask, diag, hv)
          \cup generate_knight_moves(b, check_mask, pinned)
          \cup generate_bishop_moves(b, check_mask, diag, hv)
          \cup generate_rook_moves(b, check_mask, diag, hv)
          \cup generate_queen_moves(b, check_mask, diag, hv)

generate_moves(b) ==
  LET attackers == map_king_attackers(b)
      threats == map_king_threats(b)
      attacker_count == count_bits(attackers)
      king_square == lsb(own_king(b))
      blocker_mask == IF attacker_count = 1
                      THEN BETWEEN[king_square][lsb(attackers)] ELSE Squares
      capture_mask == IF attacker_count = 1 THEN attackers ELSE Squares
      king_moves == generate_king_moves(b, threats)
  IN IF attacker_count > 1 THEN king_moves
     ELSE
       LET pins == map_pins(b)
           pinned == pins[1]
           diag == pins[2]
           hv == pins[3]
           check_mask == blocker_mask \cup capture_mask
       IN king_moves
          \cup (IF b.castling_rights # NO_RIGHTS /\ attacker_count = 0
                THEN generate_castling_moves(b, threats) ELSE {})
          \cup generate_pawn_captures(b, blocker_mask, capture_mask, diag, hv)
          \cup generate_pawn_quiets(b, blocker_mask, diag, hv)
          \cup generate_knight_moves(b, check_mask, pinned)
          \cup generate_bishop_moves(b, check_mask, diag, hv)
          \cup generate_rook_moves(b, check_mask, diag, hv)
          \cup generate_queen_moves(b, check_mask, diag, hv)

generate_captures(b) ==
  LET attackers == map_king_attackers(b)
      threats == map_king_threats(b)
      attacker_count == count_bits(attackers)
      king_square == lsb(own_king(b))
      blocker_mask == IF attacker_count = 1
                      THEN BETWEEN[king_square][lsb(attackers)] ELSE Squares
      capture_mask == IF attacker_count = 1 THEN attackers ELSE Squares
      king_moves == generate_king_captures(b, threats)
  IN IF attacker_count > 1 THEN king_moves
     ELSE
       LET pins == map_pins(b)
           pinned == pins[1]
           diag == pins[2]
           hv == pins[3]
           check_mask == blocker_mask \cup capture_mask
       IN king_moves
          \cup generate_pawn_captures(b, blocker_mask, capture_mask, diag, hv)
          \cup generate_knight_captures(b, check_mask, pinned)
          \cup generate_bishop_captures(b, check_mask, diag, hv)
          \cup generate_rook_captures(b, check_mask, diag, hv)
          \cup generate_queen_captures(b, check_mask, diag, hv)

PERFT_SUITE_DEPTH == 6

\* perft_driver that counts one node for a position at depth 1
RECURSIVE perft_driver_OneAtDepthOne(_, _)
perft_driver_OneAtDepthOne(b, depth) ==
  IF depth <= 1 THEN 1
  ELSE LET ml == generate_moves(b)
           RECURSIVE Sum(_)
           Sum(S) == IF S = {} THEN 0
                     ELSE LET m == CHOOSE x \in S : TRUE
                          IN perft_driver_OneAtDepthOne(make_move(b, m), depth - 1)
                             + Sum(S \ {m})
       IN Sum(ml)

\* perft_driver
RECURSIVE perft_driver(_, _)
perft_driver(b, depth) ==
  IF depth = 1 THEN Cardinality(generate_moves(b))
  ELSE IF depth = 0 THEN 1
  ELSE LET ml == generate_moves(b)
           RECURSIVE Sum(_)
           Sum(S) == IF S = {} THEN 0
                     ELSE LET m == CHOOSE x \in S : TRUE
                          IN perft_driver(make_move(b, m), depth - 1) + Sum(S \ {m})
       IN Sum(ml)

\* perft: the sum of perft_driver over the moves of the root
perft(b, depth) ==
  LET ml == generate_moves(b)
      RECURSIVE Total(_)
      Total(S) == IF S = {} THEN 0
                  ELSE LET m == CHOOSE x \in S : TRUE
                       IN perft_driver(make_move(b, m), depth - 1) + Total(S \ {m})
  IN Total(ml)

(***************************************************************************)
(* Positions handed to the engine (position fen ...).  The first group are *)
(* legal chess positions; the second group are strings try_from accepts    *)
(* although no game reaches them.                                          *)
(***************************************************************************)
\* K1k5/8/P7/8/8/8/8/8 w - - 0 1
FenSelfStalemate ==
  <<<<"K","1","k","5","/","8","/","P","7","/","8","/","8","/","8","/","8","/","8">>, "w", "-", "-", <<"0">>, "1">>

\* 2K2r2/4P3/8/8/8/8/8/3k4 w - - 0 1
FenPromoteOutOfCheck ==
  <<<<"2","K","2","r","2","/","4","P","3","/","8","/","8","/","8","/","8","/","8","/","3","k","4">>, "w", "-", "-", <<"0">>, "1">>

\* 8/8/8/8/k3p2R/8/3P4/3K4 w - - 0 1
FenEpRankPin ==
  <<<<"8","/","8","/","8","/","8","/","k","3","p","2","R","/","8","/","3","P","4","/","3","K","4">>, "w", "-", "-", <<"0">>, "1">>

\* 8/8/8/2k5/4p3/8/3P4/4K3 w - - 0 1
FenEpCapturesChecker ==
  <<<<"8","/","8","/","8","/","2","k","5","/","4","p","3","/","8","/","3","P","4","/","4","K","3">>, "w", "-", "-", <<"0">>, "1">>

\* 8/8/4k3/8/2p5/8/B2P2K1/8 w - - 0 1
FenEpDiagPin ==
  <<<<"8","/","8","/","4","k","3","/","8","/","2","p","5","/","8","/","B","2","P","2","K","1","/","8">>, "w", "-", "-", <<"0">>, "1">>

\* 3k4/3p4/8/K1P4r/8/8/8/8 b - - 0 1
FenEpRankPin2 ==
  <<<<"3","k","4","/","3","p","4","/","8","/","K","1","P","4","r","/","8","/","8","/","8","/","8">>, "b", "-", "-", <<"0">>, "1">>

\* r3k2r/8/8/8/8/8/8/R3K2R w KQkq - 0 1
FenCastle ==
  <<<<"r","3","k","2","r","/","8","/","8","/","8","/","8","/","8","/","8","/","R","3","K","2","R">>, "w", "KQkq", "-", <<"0">>, "1">>

\* 4k2r/7b/8/8/8/1n6/8/R3K2R w KQk - 0 1
FenCastleThreats ==
  <<<<"4","k","2","r","/","7","b","/","8","/","8","/","8","/","1","n","6","/","8","/","R","3","K","2","R">>, "w", "KQk", "-", <<"0">>, "1">>

\* R2bk3/5p2/4r1B1/1Q6/8/4Q3/4R3/2K5 b - - 0 1
FenPins ==
  <<<<"R","2","b","k","3","/","5","p","2","/","4","r","1","B","1","/","1","Q","6","/","8","/","4","Q","3","/","4","R","3","/","2","K","5">>, "b", "-", "-", <<"0">>, "1">>

\* 4k3/r7/4N3/8/8/8/8/4RK2 w - - 0 1
FenDoubleCheck ==
  <<<<"4","k","3","/","r","7","/","4","N","3","/","8","/","8","/","8","/","8","/","4","R","K","2">>, "w", "-", "-", <<"0">>, "1">>

\* 8/P1k5/K7/8/8/8/8/8 w - - 0 1
FenUnderPromote ==
  <<<<"8","/","P","1","k","5","/","K","7","/","8","/","8","/","8","/","8","/","8">>, "w", "-", "-", <<"0">>, "1">>

\* 8/1K6/8/3pP3/8/5b2/8/7k w - d6 0 1
FenEpDiagonalDiscovery ==
  <<<<"8","/","1","K","6","/","8","/","3","p","P","3","/","8","/","5","b","2","/","8","/","7","k">>, "w", "-", "d6", <<"0">>, "1">>

\* 4k3/8/8/4P3/8/8/8/4K3 w - d6 0 1
FenEpNoPawn ==
  <<<<"4","k","3","/","8","/","8","/","4","P","3","/","8","/","8","/","8","/","4","K","3">>, "w", "-", "d6", <<"0">>, "1">>

\* 4k3/8/8/8/8/8/8/4K2N w K - 0 1
FenCastleNoRook ==
  <<<<"4","k","3","/","8","/","8","/","8","/","8","/","8","/","8","/","4","K","2","N">>, "w", "K", "-", <<"0">>, "1">>

\* 8/4k3/4R3/8/1B6/8/8/4K3 b - - 0 1
FenDoubleCheckCapture ==
  <<<<"8","/","4","k","3","/","4","R","3","/","8","/","1","B","6","/","8","/","8","/","4","K","3">>, "b", "-", "-", <<"0">>, "1">>

\* 8/8/8/1k6/3Pp3/8/8/4KQ2 b - d3 0 1
FenEpBlocksCheck ==
  <<<<"8","/","8","/","8","/","1","k","6","/","3","P","p","3","/","8","/","8","/","4","K","Q","2">>, "b", "-", "d3", <<"0">>, "1">>

\* 8/8/8/2k5/3Pp3/8/8/4K3 b - d3 0 1
FenEpTakesChecker ==
  <<<<"8","/","8","/","8","/","2","k","5","/","3","P","p","3","/","8","/","8","/","4","K","3">>, "b", "-", "d3", <<"0">>, "1">>

\* 8/8/8/8/k2Pp2Q/8/8/3K4 b - d3 0 1
FenEpExposesKing ==
  <<<<"8","/","8","/","8","/","8","/","k","2","P","p","2","Q","/","8","/","8","/","3","K","4">>, "b", "-", "d3", <<"0">>, "1">>

\* 8/8/8/5k2/3Pp3/8/8/1B2K3 b - d3 0 1
FenEpAlongPin ==
  <<<<"8","/","8","/","8","/","5","k","2","/","3","P","p","3","/","8","/","8","/","1","B","2","K","3">>, "b", "-", "d3", <<"0">>, "1">>

\* 4k3/8/8/8/3Pp3/8/8/4RK2 b - d3 0 1
FenEpFilePinned ==
  <<<<"4","k","3","/","8","/","8","/","8","/","3","P","p","3","/","8","/","8","/","4","R","K","2">>, "b", "-", "d3", <<"0">>, "1">>

\* 8/8/7k/8/3Pp3/8/8/2B1K3 b - d3 0 1
FenEpLeavesCheck ==
  <<<<"8","/","8","/","7","k","/","8","/","3","P","p","3","/","8","/","8","/","2","B","1","K","3">>, "b", "-", "d3", <<"0">>, "1">>

\* 4r1k1/8/8/8/8/5n2/8/R3K2R w KQ - 0 1
FenDoubleCheckCastle ==
  <<<<"4","r","1","k","1","/","8","/","8","/","8","/","8","/","5","n","2","/","8","/","R","3","K","2","R">>, "w", "KQ", "-", <<"0">>, "1">>

LegalFens == { FenSelfStalemate, FenPromoteOutOfCheck, FenEpRankPin, FenEpCapturesChecker, FenEpDiagPin, FenEpRankPin2, FenCastle, FenCastleThreats, FenPins, FenDoubleCheck, FenUnderPromote,
               FenDoubleCheckCapture, FenDoubleCheckCastle }

IllegalFens == { FenEpDiagonalDiscovery, FenEpNoPawn, FenCastleNoRook }

\* positions right after a double push, with the en-passant square set
EnPassantFens == { FenEpBlocksCheck, FenEpTakesChecker, FenEpExposesKing,
                   FenEpAlongPin, FenEpFilePinned, FenEpLeavesCheck }

(***************************************************************************)
(* Reference notions the properties are stated with                        *)
(***************************************************************************)
\* square sq is attacked by a piece of colour by, seen from the attackers
Attacked(b, sq, by) ==
  \/ \E p \in b.pieces[pawn(by)] : sq \in pawn_attacks(p, by)
  \/ \E p \in b.pieces[knight(by)] : sq \in knight_attacks(p)
  \/ \E p \in b.pieces[bishop(by)] \cup b.pieces[queen(by)] :
        sq \in bishop_attacks(p, b.occupancy)
  \/ \E p \in b.pieces[rook(by)] \cup b.pieces[queen(by)] :
        sq \in rook_attacks(p, b.occupancy)
  \/ \E p \in b.pieces[king(by)] : sq \in king_attacks(p)

KingAttacked(b, c) == \E k \in b.pieces[king(c)] : Attacked(b, k, NotColor(c))

OneKingPerSide(b) ==
  Cardinality(b.pieces[WKING]) = 1 /\ Cardinality(b.pieces[BKING]) = 1

RightsAgree(b) ==
  /\ WK \in b.castling_rights => 60 \in b.pieces[WKING] /\ 63 \in b.pieces[WROOK]
  /\ WQ \in b.castling_rights => 60 \in b.pieces[WKING] /\ 56 \in b.pieces[WROOK]
  /\ BK \in b.castling_rights => 4 \in b.pieces[BKING] /\ 7 \in b.pieces[BROOK]
  /\ BQ \in b.castling_rights => 4 \in b.pieces[BKING] /\ 0 \in b.pieces[BROOK]

\* a legal starting position: one king per side, every square holds at most
\* one piece, no pawn on the first or last rank, no en-passant square,
\* castling rights only for kings and rooks on their home squares, and the
\* side that is not to move is not in check
WellFormed(b) ==
  /\ OneKingPerSide(b)
  /\ \A p \in Pieces : \A q \in Pieces : p # q => b.pieces[p] \cap b.pieces[q] = {}
  /\ \A sq \in b.pieces[WPAWN] \cup b.pieces[BPAWN] : rank(sq) \in 1..6
  /\ b.en_passant = NoSquare
  /\ RightsAgree(b)
  /\ ~KingAttacked(b, NotColor(b.side))

(***************************************************************************)
(* Reference move generator: pseudo-legal moves found square by square     *)
(* from the rules of piece movement, then filtered by king safety          *)
(***************************************************************************)
EmptyAt(b, sq) == \A p \in Pieces : sq \notin b.pieces[p]
OwnAt(b, sq) == \E p \in Pieces : color(p) = b.side /\ sq \in b.pieces[p]
EnemyAt(b, sq) == \E p \in Pieces : color(p) # b.side /\ sq \in b.pieces[p]
EnemyPieceAt(b, sq) == CHOOSE p \in Pieces : color(p) # b.side /\ sq \in b.pieces[p]

\* squares reached walking from (f, r) in direction d over empty squares,
\* the first occupied square included when it holds an enemy piece
RECURSIVE Walk(_, _, _, _)
Walk(b, f, r, d) ==
  IF ~OnBoard(f + d[1], r + d[2]) THEN {}
  ELSE LET t == from_coords(f + d[1], r + d[2]) IN
       IF EmptyAt(b, t) THEN {t} \cup Walk(b, f + d[1], r + d[2], d)
       ELSE IF EnemyAt(b, t) THEN {t} ELSE {}

RefStep(b, src, piece, tgt) ==
  IF EnemyAt(b, tgt)
  THEN Move(src, tgt, piece, EnemyPieceAt(b, tgt), NoPiece, TRUE, FALSE, FALSE, FALSE)
  ELSE Move(src, tgt, piece, NoPiece, NoPiece, FALSE, FALSE, FALSE, FALSE)

RefLeaper(b, src, piece, deltas) ==
  { RefStep(b, src, piece, t) : t \in { u \in Leap(src, deltas) : ~OwnAt(b, u) } }
RefSlider(b, src, piece, dirs) ==
  { RefStep(b, src, piece, t) :
      t \in UNION { Walk(b, file(src), rank(src), d) : d \in dirs } }

RefPawn(b, src) ==
  LET dr == IF b.side = White THEN -1 ELSE 1
      f == file(src)
      r == rank(src)
      last == IF b.side = White THEN 0 ELSE 7
      home == IF b.side = White THEN 6 ELSE 1
      me == pawn(b.side)
      one == from_coords(f, r + dr)
      two == from_coords(f, r + 2 * dr)
      diag == { from_coords(g, r + dr) : g \in { f - 1, f + 1 } \cap (0..7) }
      Expand(tgt, cap, isCap) ==
        IF r + dr = last
        THEN { Move(src, tgt, me, cap, pr, isCap, FALSE, FALSE, FALSE) :
                 pr \in IF b.side = White
                        THEN {WQUEEN, WROOK, WBISHOP, WKNIGHT}
                        ELSE {BQUEEN, BROOK, BBISHOP, BKNIGHT} }
        ELSE { Move(src, tgt, me, cap, NoPiece, isCap, FALSE, FALSE, FALSE) }
  IN IF ~OnBoard(f, r + dr) THEN {}
     ELSE
          (IF EmptyAt(b, one) THEN Expand(one, NoPiece, FALSE) ELSE {})
     \cup (IF r = home /\ EmptyAt(b, one) /\ EmptyAt(b, two)
           THEN { Move(src, two, me, NoPiece, NoPiece, FALSE, TRUE, FALSE, FALSE) }
           ELSE {})
     \cup UNION { Expand(t, EnemyPieceAt(b, t), TRUE) : t \in { u \in diag : EnemyAt(b, u) } }
     \cup { Move(src, t, me, pawn(NotColor(b.side)), NoPiece, TRUE, FALSE, TRUE, FALSE) :
              t \in { u \in diag : u = b.en_passant } }

\* castling: the right is held, the king is not in check, the squares between
\* king and rook are empty, the square the king crosses is not attacked
RefCastling(b) ==
  LET home == IF b.side = White THEN 60 ELSE 4
      opp == NotColor(b.side)
      me == king(b.side)
  IN IF Attacked(b, home, opp) THEN {}
     ELSE
          (IF /\ has_kingside(b.castling_rights, b.side)
              /\ EmptyAt(b, home + 1) /\ EmptyAt(b, home + 2)
              /\ ~Attacked(b, home + 1, opp)
           THEN { Move(home, home + 2, me, NoPiece, NoPiece, FALSE, FALSE, FALSE, TRUE) }
           ELSE {})
     \cup (IF /\ has_queenside(b.castling_rights, b.side)
              /\ EmptyAt(b, home - 1) /\ EmptyAt(b, home - 2) /\ EmptyAt(b, home - 3)
              /\ ~Attacked(b, home - 1, opp)
           THEN { Move(home, home - 2, me, NoPiece, NoPiece, FALSE, FALSE, FALSE, TRUE) }
           ELSE {})

PseudoLegal(b) ==
       UNION { RefPawn(b, s) : s \in b.pieces[pawn(b.side)] }
  \cup UNION { RefLeaper(b, s, knight(b.side), KnightDeltas) : s \in b.pieces[knight(b.side)] }
  \cup UNION { RefSlider(b, s, bishop(b.side), DiagDirs) : s \in b.pieces[bishop(b.side)] }
  \cup UNION { RefSlider(b, s, rook(b.side), HVDirs) : s \in b.pieces[rook(b.side)] }
  \cup UNION { RefSlider(b, s, queen(b.side), DiagDirs \cup HVDirs) :
                 s \in b.pieces[queen(b.side)] }
  \cup UNION { RefLeaper(b, s, king(b.side), KingDeltas) : s \in b.pieces[king(b.side)] }
  \cup RefCastling(b)

LegalReference(b) ==
  { m \in PseudoLegal(b) : ~KingAttacked(make_move(b, m), b.side) }

\* the hash rebuilt from scratch: piece-square keys of the pieces present,
\* the castling key, the side key for White, the en-passant key when set
HashFromScratch(b) ==
       UNION { { PieceKey(p, sq) : sq \in b.pieces[p] } : p \in Pieces }
  \cup { CastleKey(b.castling_rights) }
  \cup (IF b.side = White THEN { SideKey } ELSE {})
  \cup (IF b.en_passant # NoSquare THEN { EpKey(b.en_passant) } ELSE {})

(***************************************************************************)
(* tt.rs : transposition table.  Keys are the u64 values of ZHash; the     *)
(* table is kept sparsely: a slot never written holds TTField::default()   *)
(***************************************************************************)
NULL_KEY == 0
NULL_MOVE == 0
TTFieldSize == 24
DEFAULT_MB == 256

TTField(key, best_move, depth, step, value, flag) ==
  [ key |-> key, best_move |-> best_move, depth |-> depth,
    step |-> step, value |-> value, flag |-> flag ]

TTFieldDefault == TTField(NULL_KEY, NULL_MOVE, 0, 0, 0, "Exact")

RECURSIVE next_power_of_two_from(_, _)
next_power_of_two_from(p, n) ==
  IF p >= n THEN p ELSE next_power_of_two_from(2 * p, n)
next_power_of_two(n) == next_power_of_two_from(1, n)

RECURSIVE BitAnd(_, _)
BitAnd(a, b) ==
  IF a = 0 \/ b = 0 THEN 0
  ELSE (a % 2) * (b % 2) + 2 * BitAnd(a \div 2, b \div 2)

\* a u64 with every bit set, what 0 - 1 wraps to where overflow is not checked
\* (with overflow checks the subtraction panics)
U64_ONES == -1
\* table holds the slots that differ from TTField::default(), len is table.len()
TT_new(mb) ==
  LET max_size == (mb * 1024 * 1024) \div TTFieldSize + 1
      actual_size == next_power_of_two(max_size) \div 2
  IN [ table |-> << >>, len |-> actual_size,
       bitmask |-> IF actual_size = 0 THEN U64_ONES ELSE actual_size - 1 ]

TT_default == TT_new(DEFAULT_MB)

tt_index(t, key) == BitAnd(key, t.bitmask)
Slot(t, index) == IF index \in DOMAIN t.table THEN t.table[index] ELSE TTFieldDefault
StoreSlot(t, index, field) ==
  [ t EXCEPT !.table = [ i \in DOMAIN t.table \cup {index} |->
                           IF i = index THEN field ELSE t.table[i] ] ]

None == [ none |-> TRUE ]

\* probe that trusts the slot without comparing keys
probe_IndexOnly(t, hash) == Slot(t, tt_index(t, hash))

probe(t, hash) ==
  LET field == Slot(t, tt_index(t, hash))
  IN IF field.key = hash THEN field ELSE None

insert(t, entry) ==
  LET index == tt_index(t, entry.key)
      field == Slot(t, index)
  IN IF /\ entry.key # field.key
        /\ (entry.step > field.step \/ entry.depth >= field.depth)
     THEN StoreSlot(t, index, entry)
     ELSE t

\* get_unchecked and get_unchecked_mut past the end of the table are undefined
\* behaviour: the probe may return anything, the insert may or may not write
InBounds(t, key) == tt_index(t, key) < t.len
ProbeOutcomes(t, hash) ==
  IF InBounds(t, hash) THEN { probe(t, hash) }
  ELSE { None, TTField(hash, NULL_MOVE, 0, 0, 0, "Exact") }
InsertOutcomes(t, entry) ==
  IF InBounds(t, entry.key) THEN { insert(t, entry) }
  ELSE { t, StoreSlot(t, tt_index(t, entry.key), entry) }

(***************************************************************************)
(* search.rs : iterative deepening and the root search.  The tree below    *)
(* the root (negamax) is an oracle: each call returns an evaluation and    *)
(* may set Search.stop when Clock::mid_check fails                         *)
(***************************************************************************)
MAX_DEPTH == 128
ASPIRATION_WINDOW == 50
ASPIRATION_THRESHOLD == 4
MATE == 30000

Abs(x) == IF x < 0 THEN -x ELSE x
is_mate(eval) == eval >= MATE - MAX_DEPTH

\* Clock: a depth limit, and whether a time or node limit can end the search
Clock(depth, expires) == [ depth |-> depth, expires |-> expires ]
start_check(clock, depth) == depth <= clock.depth

NoResult == << >>

\* Search::new, then the locals of iterative_search and of search_root
Search_new(clock, moves, key) ==
  [ pc |-> "loop", clock |-> clock, moves |-> moves, key |-> key,
    stop |-> FALSE, best_move |-> NULL_MOVE, alpha |-> -MATE, beta |-> MATE,
    eval |-> 0, depth |-> 1,
    r_alpha |-> 0, r_best |-> NULL_MOVE, r_i |-> 0, result |-> NoResult ]

SearchIdle == [ Search_new(Clock(0, FALSE), << >>, NULL_KEY) EXCEPT !.pc = "idle" ]

\* the loop condition of iterative_search
LoopCond(s) ==
  /\ ~s.stop
  /\ start_check(s.clock, s.depth)
  /\ ~is_mate(Abs(s.eval))
  /\ s.depth < MAX_DEPTH

\* entry of search_root: alpha, best_move and the move iterator
EnterRoot(s) ==
  [ s EXCEPT !.pc = "root", !.r_alpha = s.alpha, !.r_best = NULL_MOVE, !.r_i = 1 ]

\* the loop body that forgets the stop test before taking the iteration's move
AfterRoot_IgnoresStop(s, eval, temp_best) ==
  LET t == [ s EXCEPT !.pc = "loop", !.eval = eval ]
  IN IF eval <= s.alpha THEN [ t EXCEPT !.alpha = -MATE ]
     ELSE IF eval >= s.beta THEN [ t EXCEPT !.beta = MATE ]
     ELSE LET u == IF s.depth >= ASPIRATION_THRESHOLD
                   THEN [ t EXCEPT !.alpha = eval - ASPIRATION_WINDOW,
                                   !.beta = eval + ASPIRATION_WINDOW ]
                   ELSE t
          IN [ u EXCEPT !.best_move = temp_best, !.depth = @ + 1 ]

\* the loop body that leaves the window as it is after a fail-low
AfterRoot_KeepsWindow(s, eval, temp_best) ==
  LET t == [ s EXCEPT !.pc = "loop", !.eval = eval ]
  IN IF eval <= s.alpha THEN t
     ELSE IF eval >= s.beta THEN [ t EXCEPT !.beta = MATE ]
     ELSE LET u == IF s.depth >= ASPIRATION_THRESHOLD
                   THEN [ t EXCEPT !.alpha = eval - ASPIRATION_WINDOW,
                                   !.beta = eval + ASPIRATION_WINDOW ]
                   ELSE t
          IN IF ~s.stop
             THEN [ u EXCEPT !.best_move = temp_best, !.depth = @ + 1 ]
             ELSE u

\* iterative_search after search_root returned (eval, temp_best)
AfterRoot(s, eval, temp_best) ==
  LET t == [ s EXCEPT !.pc = "loop", !.eval = eval ]
  IN IF eval <= s.alpha THEN [ t EXCEPT !.alpha = -MATE ]
     ELSE IF eval >= s.beta THEN [ t EXCEPT !.beta = MATE ]
     ELSE LET u == IF s.depth >= ASPIRATION_THRESHOLD
                   THEN [ t EXCEPT !.alpha = eval - ASPIRATION_WINDOW,
                                   !.beta = eval + ASPIRATION_WINDOW ]
                   ELSE t
          IN IF ~s.stop
             THEN [ u EXCEPT !.best_move = temp_best, !.depth = @ + 1 ]
             ELSE u

\* the evaluation of one root move: a full search of the first move, a null
\* window search and, when it lands inside the window, a full re-search of the others
RootEval(s, o1, o2) ==
  LET e1 == -o1.eval
      stop1 == s.stop \/ o1.stop
  IN IF s.r_i = 1 THEN [ eval |-> e1, stop |-> stop1 ]
     ELSE IF e1 > s.r_alpha /\ e1 < s.beta /\ ~stop1
          THEN [ eval |-> -o2.eval, stop |-> stop1 \/ o2.stop ]
          ELSE [ eval |-> e1, stop |-> stop1 ]

\* one iteration of the loop over the root moves: the search, the table and
\* what search_root returns, if it returns
RootMove(s, t, o1, o2) ==
  LET m == s.moves[s.r_i]
      r == RootEval(s, o1, o2)
      s1 == [ s EXCEPT !.stop = r.stop,
                       !.r_best = IF s.r_i = 1 THEN m ELSE @ ]
  IN IF r.stop THEN [ s |-> s1, t |-> t, ret |-> << 0, NULL_MOVE >> ]
     ELSE IF r.eval > s.r_alpha
     THEN IF r.eval >= s.beta
          THEN [ s |-> [ s1 EXCEPT !.r_best = m, !.r_alpha = r.eval ],
                 t |-> insert(t, TTField(s.key, m, s.depth, 0, s.beta, "Lower")),
                 ret |-> << s.beta, m >> ]
          ELSE [ s |-> [ s1 EXCEPT !.r_best = m, !.r_alpha = r.eval, !.r_i = @ + 1 ],
                 t |-> insert(t, TTField(s.key, m, s.depth, 0, r.eval, "Upper")),
                 ret |-> NoResult ]
     ELSE [ s |-> [ s1 EXCEPT !.r_i = @ + 1 ], t |-> t, ret |-> NoResult ]

\* the end of search_root once every move was searched
RootEnd(s, t) ==
  [ s |-> s,
    t |-> IF ~s.stop
          THEN insert(t, TTField(s.key, s.r_best, s.depth, 0, s.r_alpha, "Exact"))
          ELSE t,
    ret |-> << s.r_alpha, s.r_best >> ]

\* the caller resumes when search_root has returned
Resume(r) ==
  IF r.ret = NoResult THEN r.s ELSE AfterRoot(r.s, r.ret[1], r.ret[2])

\* the return of iterative_search
Finish(s) == [ s EXCEPT !.pc = "done", !.result = << s.best_move, s.depth - 1 >> ]

(***************************************************************************)
(* engine/search_tables.rs : history scores                                *)
(***************************************************************************)
HISTORY_BONUS_CAP == 400
GRAVITY == 2048
\* `as i16` of a wider integer keeps the low sixteen bits
as_i16(x) == ((x + 32768) % 65536) - 32768
\* integer division of Rust, rounding towards zero (divisor positive)
DivTrunc(a, d) == IF a >= 0 THEN a \div d ELSE -((-a) \div d)

history_bonus(depth) ==
  as_i16(IF HISTORY_BONUS_CAP <= depth * depth THEN HISTORY_BONUS_CAP ELSE depth * depth)

\* the i32 sum of taper_bonus, before the cast back to i16
taper_sum(bonus, old) == old + 8 * bonus - DivTrunc(old * Abs(bonus), GRAVITY)

\* taper_bonus without the term pulling the score back
taper_bonus_NoGravity(bonus, old) == as_i16(old + 8 * bonus)

taper_bonus(bonus, old) == as_i16(taper_sum(bonus, old))

\* HistoryTable::add_bonus and DoubleHistoryTable::add_bonus on the score of
\* the move's slot
add_bonus(old, bonus) == taper_bonus(bonus, old)

\* HistoryTable::update and DoubleHistoryTable::update, seen from one slot:
\* searched of the moves tried before share the slot, and curr tells whether
\* the cutoff move does
RECURSIVE update(_, _, _, _)
update(old, bonus, curr, searched) ==
  IF searched > 0 THEN update(add_bonus(old, -bonus), bonus, curr, searched - 1)
  ELSE IF curr THEN add_bonus(old, bonus)
  ELSE old

(***************************************************************************)
(* Position, as the search sees it: a finite game tree.  A node is the     *)
(* sequence of the moves made from the root (0 is the null move), a move   *)
(* is its number in the node's move list                                   *)
(***************************************************************************)
\* moves of a node, by the number of plies from the root
Width == << 2, 5, 2, 2 >>

RECURSIVE PositionKey(_)
PositionKey(node) ==
  IF node = << >> THEN 1
  ELSE PositionKey(SubSeq(node, 1, Len(node) - 1)) * 8 + node[Len(node)]

Position_new(game, node) == [ game |-> game, node |-> node ]
Position_ply(pos) == Len(pos.node)
Position_hash(pos) == PositionKey(pos.node)
Position_king_in_check(pos) == (Position_hash(pos) * 3 + pos.game) % 5 = 0
Position_is_draw(pos) == Position_ply(pos) >= 2 /\ (Position_hash(pos) + pos.game) % 11 = 0
Position_only_king_pawns_left(pos) == (Position_hash(pos) + pos.game) % 4 = 0
Position_evaluate(pos) == (((Position_hash(pos) * 7 + pos.game * 3) % 13) - 6) * 25
Position_move_count(pos) ==
  IF Position_ply(pos) >= Len(Width) THEN 0
  ELSE IF Position_ply(pos) >= 2 /\ (Position_hash(pos) * 3 + pos.game) % 7 = 0 THEN 0
  ELSE Width[Position_ply(pos) + 1]
Position_is_capture(pos, m) == (Position_hash(pos) + m + pos.game) % 4 = 0
Position_is_promotion(pos, m) == (Position_hash(pos) + m) % 7 = 0
\* the score generate_captures gives a capture: negative when the exchange loses
Position_see(pos, m) == IF (Position_hash(pos) + m) % 5 = 0 THEN -1 ELSE 1

RECURSIVE Numbers(_, _)
Numbers(from, to) == IF from > to THEN << >> ELSE << from >> \o Numbers(from + 1, to)

\* generate_moves in the order the search takes them: the table move first
Position_generate_moves(pos, tt_move) ==
  LET all == Numbers(1, Position_move_count(pos))
  IN IF tt_move \in 1..Position_move_count(pos)
     THEN << tt_move >> \o SelectSeq(all, LAMBDA m : m # tt_move)
     ELSE all
\* generate_captures: the captures, those with a negative score last
Position_generate_captures(pos) ==
  LET captures == SelectSeq(Numbers(1, Position_move_count(pos)),
                            LAMBDA m : Position_is_capture(pos, m))
  IN SelectSeq(captures, LAMBDA m : Position_see(pos, m) >= 0)
       \o SelectSeq(captures, LAMBDA m : Position_see(pos, m) < 0)

(***************************************************************************)
(* search.rs : search_root, negamax and quiescence as frames of a call     *)
(* stack; a step runs a frame from one call to the next call or return     *)
(***************************************************************************)
LMR_THRESHOLD == 4
LMR_LOWER_LIMIT == 3
NMP_REDUCTION == 2
FUTILITY_MARGIN == 1100

Max(a, b) == IF a >= b THEN a ELSE b
Min(a, b) == IF a <= b THEN a ELSE b

\* mate scores are stored relative to the node and read back relative to the root
value_to_tt(value, ply) ==
  IF value >= MATE - MAX_DEPTH THEN value + ply
  ELSE IF value <= -(MATE - MAX_DEPTH) THEN value - ply
  ELSE value
get_value(entry, ply) ==
  IF entry.value >= MATE - MAX_DEPTH THEN entry.value - ply
  ELSE IF entry.value <= -(MATE - MAX_DEPTH) THEN entry.value + ply
  ELSE entry.value
TTField_new(node, flag, best_move, value, depth) ==
  TTField(PositionKey(node), best_move, depth, 0, value_to_tt(value, Len(node)), flag)

\* a call: the arguments, the place in the caller it was made from, and the
\* locals at their first values.  raised is the move that last raised alpha (history)
Frame(fn, node, alpha, beta, depth, site) ==
  [ fn |-> fn, pc |-> "entry", site |-> site, node |-> node,
    alpha |-> alpha, beta |-> beta, depth |-> depth,
    a0 |-> alpha, b0 |-> beta, d0 |-> depth,
    in_check |-> FALSE, pv_node |-> FALSE, entry |-> None,
    moves |-> << >>, i |-> 0, m |-> NULL_MOVE,
    best_move |-> NULL_MOVE, tt_bound |-> "Upper", raised |-> NULL_MOVE ]

NoReturn == [ fn |-> "none" ]
\* what a step does: it calls, or it returns value (and move) by the return
\* statement named path; t is the table afterwards, stored the entry given to insert
Calls(f, child, t) == [ kind |-> "call", frame |-> f, child |-> child, t |-> t ]
Returns(f, path, value, move, t, stored) ==
  [ kind |-> "return", t |-> t,
    ret |-> [ fn |-> f.fn, site |-> f.site, node |-> f.node, path |-> path,
              value |-> value, move |-> move, a0 |-> f.a0, b0 |-> f.b0,
              depth |-> f.depth, in_check |-> f.in_check, entry |-> f.entry,
              moves_checked |-> f.i, stored |-> stored, raised |-> f.raised,
              stopped |-> FALSE ] ]

\* the test of the table entry in negamax
tt_cutoff_AnyDepth(entry, depth, ply, alpha, beta) ==
  IF entry = None THEN [ returns |-> FALSE, alpha |-> alpha, beta |-> beta ]
  ELSE LET tt_eval == get_value(entry, ply)
           a == IF entry.flag = "Lower" THEN Max(alpha, tt_eval) ELSE alpha
           b == IF entry.flag = "Upper" THEN Min(beta, tt_eval) ELSE beta
       IN IF entry.flag = "Exact"
          THEN [ returns |-> TRUE, path |-> "tt_exact", value |-> tt_eval,
                 alpha |-> alpha, beta |-> beta ]
          ELSE [ returns |-> a >= b, path |-> "tt_cutoff", value |-> tt_eval,
                 alpha |-> a, beta |-> b ]

tt_cutoff(entry, depth, ply, alpha, beta) ==
  IF entry = None \/ entry.depth < depth
  THEN [ returns |-> FALSE, alpha |-> alpha, beta |-> beta ]
  ELSE LET tt_eval == get_value(entry, ply)
           a == IF entry.flag = "Lower" THEN Max(alpha, tt_eval) ELSE alpha
           b == IF entry.flag = "Upper" THEN Min(beta, tt_eval) ELSE beta
       IN IF entry.flag = "Exact"
          THEN [ returns |-> TRUE, path |-> "tt_exact", value |-> tt_eval,
                 alpha |-> alpha, beta |-> beta ]
          ELSE [ returns |-> a >= b, path |-> "tt_cutoff", value |-> tt_eval,
                 alpha |-> a, beta |-> b ]

\* the condition of the reduced search of a move, moves_checked counting it
use_lmr(pos, f, m) ==
  /\ f.i >= LMR_THRESHOLD
  /\ f.depth >= LMR_LOWER_LIMIT
  /\ ~f.in_check
  /\ ~Position_is_capture(pos, m)
  /\ ~Position_is_promotion(pos, m)

\* negamax after the move loop that also stores a node without moves
negamax_end_StoresMate(f, t, stop) ==
  LET value == IF f.i > 0 THEN f.alpha
               ELSE IF f.in_check THEN -MATE + Len(f.node) ELSE 0
      e == TTField_new(f.node, f.tt_bound, f.best_move, value, f.depth)
  IN IF ~stop
     THEN Returns(f, IF f.i > 0 THEN "end" ELSE IF f.in_check THEN "mate" ELSE "stalemate",
                  value, f.best_move, insert(t, e), e)
     ELSE Returns(f, "end", value, f.best_move, t, None)

\* negamax after the move loop: mate or stalemate, or the store and alpha
negamax_end(f, t, stop) ==
  IF f.i = 0
  THEN IF f.in_check
       THEN Returns(f, "mate", -MATE + Len(f.node), f.best_move, t, None)
       ELSE Returns(f, "stalemate", 0, f.best_move, t, None)
  ELSE IF ~stop
       THEN LET e == TTField_new(f.node, f.tt_bound, f.best_move, f.alpha, f.depth)
            IN Returns(f, "end", f.alpha, f.best_move, insert(t, e), e)
       ELSE Returns(f, "end", f.alpha, f.best_move, t, None)

\* the head of the move loop: the next move is made and searched, the first
\* with the full window, a late quiet one reduced, the others with a null window
negamax_continue(g, f, t, stop) ==
  IF f.i < Len(f.moves)
  THEN LET m == f.moves[f.i + 1]
           f1 == [ f EXCEPT !.i = @ + 1, !.m = m ]
           child == Append(f.node, m)
       IN IF f1.i = 1
          THEN Calls([ f1 EXCEPT !.pc = "after_first" ],
                     Frame("negamax", child, -f.beta, -f.alpha, f.depth - 1, "first"), t)
          ELSE IF use_lmr(Position_new(g, f.node), f1, m)
          THEN Calls([ f1 EXCEPT !.pc = "after_lmr" ],
                     Frame("negamax", child, -f.alpha - 1, -f.alpha, f.depth - 2, "lmr"), t)
          ELSE Calls([ f1 EXCEPT !.pc = "after_pvs" ],
                     Frame("negamax", child, -f.alpha - 1, -f.alpha, f.depth - 1, "pvs"), t)
  ELSE negamax_end(f, t, stop)

\* the tail of the move loop once eval is final: undo, the stop test, the
\* cutoff or the new alpha
negamax_after_move(g, f, t, stop, eval) ==
  IF stop THEN Returns(f, "stopped", 0, f.best_move, t, None)
  ELSE IF eval > f.alpha
  THEN IF eval >= f.beta
       THEN negamax_end([ f EXCEPT !.alpha = f.beta, !.tt_bound = "Lower", !.raised = f.m ],
                        t, stop)
       ELSE negamax_continue(g, [ f EXCEPT !.alpha = eval, !.tt_bound = "Exact",
                                           !.raised = f.m ], t, stop)
  ELSE negamax_continue(g, f, t, stop)

\* negamax from the check extension to the first call or return, the stop
\* test passed
negamax_entry(g, f, t) ==
  LET pos == Position_new(g, f.node)
      ply == Position_ply(pos)
      pv_node == f.alpha # f.beta - 1
      in_check == Position_king_in_check(pos)
      depth == IF in_check THEN f.depth + 1 ELSE f.depth
      alpha == Max(-MATE + ply, f.alpha)
      beta == Min(MATE - ply - 1, f.beta)
      f1 == [ f EXCEPT !.in_check = in_check, !.depth = depth, !.pv_node = pv_node ]
      entry == probe(t, Position_hash(pos))
      cut == tt_cutoff(entry, depth, ply, alpha, beta)
      tt_move == IF entry = None THEN NULL_MOVE ELSE entry.best_move
      f2 == [ f1 EXCEPT !.alpha = cut.alpha, !.beta = cut.beta, !.entry = entry ]
      f3 == [ f2 EXCEPT !.moves = Position_generate_moves(pos, tt_move) ]
  IN IF depth = 0
     THEN Calls([ f1 EXCEPT !.pc = "leaf" ],
                Frame("quiescence", f.node, f.alpha, f.beta, 0, "leaf"), t)
     ELSE IF alpha >= beta
     THEN Returns(f1, "mate_distance", alpha, NULL_MOVE, t, None)
     ELSE IF Position_is_draw(pos)
     THEN Returns(f1, "draw", 0, NULL_MOVE, t, None)
     ELSE IF cut.returns
     THEN Returns(f2, cut.path, cut.value, NULL_MOVE, t, None)
     ELSE IF /\ depth > NMP_REDUCTION
             /\ ~pv_node
             /\ ~in_check
             /\ ~Position_only_king_pawns_left(pos)
     THEN Calls([ f3 EXCEPT !.pc = "after_null" ],
                Frame("negamax", Append(f.node, 0), -f2.beta, -f2.beta + 1,
                      depth - 1 - NMP_REDUCTION, "null"), t)
     ELSE negamax_continue(g, f3, t, FALSE)

\* after the null move search: the cutoff, or on to the move loop
negamax_after_null(g, f, t, stop, value) ==
  LET eval == -value
  IN IF eval >= f.beta /\ ~is_mate(Abs(eval))
     THEN Returns(f, "null_cutoff", f.beta, NULL_MOVE, t, None)
     ELSE negamax_continue(g, f, t, stop)

\* after the reduced search: the null window search at full depth when it
\* beat alpha
negamax_after_lmr(g, f, t, stop, value) ==
  IF -value > f.alpha
  THEN Calls([ f EXCEPT !.pc = "after_pvs" ],
             Frame("negamax", Append(f.node, f.m), -f.alpha - 1, -f.alpha,
                   f.depth - 1, "pvs"), t)
  ELSE negamax_after_move(g, f, t, stop, -value)

\* after the null window search: the full window search when it landed inside
negamax_after_pvs(g, f, t, stop, value) ==
  IF -value > f.alpha /\ -value < f.beta /\ ~stop
  THEN Calls([ f EXCEPT !.pc = "after_full" ],
             Frame("negamax", Append(f.node, f.m), -f.beta, -f.alpha,
                   f.depth - 1, "full"), t)
  ELSE negamax_after_move(g, f, t, stop, -value)

\* the capture loop of quiescence: captures in order until the score is negative
quiescence_continue(g, f, t) ==
  IF /\ f.i < Len(f.moves)
     /\ Position_see(Position_new(g, f.node), f.moves[f.i + 1]) >= 0
  THEN LET m == f.moves[f.i + 1]
       IN Calls([ f EXCEPT !.i = @ + 1, !.m = m, !.pc = "after_capture" ],
                Frame("quiescence", Append(f.node, m), -f.beta, -f.alpha, 0, "capture"), t)
  ELSE Returns(f, "end", f.alpha, NULL_MOVE, t, None)

\* quiescence from the stand pat to the first call or return, the stop test passed
quiescence_entry(g, f, t) ==
  LET pos == Position_new(g, f.node)
      eval == Position_evaluate(pos)
  IN IF Position_ply(pos) >= MAX_DEPTH
     THEN Returns(f, "max_depth", eval, NULL_MOVE, t, None)
     ELSE IF eval >= f.beta
     THEN Returns(f, "stand_pat", f.beta, NULL_MOVE, t, None)
     ELSE IF eval < f.alpha - FUTILITY_MARGIN
     THEN Returns(f, "futility", f.alpha, NULL_MOVE, t, None)
     ELSE quiescence_continue(g, [ f EXCEPT !.alpha = Max(eval, f.alpha),
                                            !.moves = Position_generate_captures(pos) ], t)

quiescence_after(g, f, t, value) ==
  LET eval == -value
  IN IF eval > f.alpha
     THEN IF eval >= f.beta
          THEN Returns(f, "cutoff", f.beta, NULL_MOVE, t, None)
          ELSE quiescence_continue(g, [ f EXCEPT !.alpha = eval ], t)
     ELSE quiescence_continue(g, f, t)

\* the head of the loop of search_root, and its end
search_root_continue(g, f, t, stop) ==
  IF f.i < Len(f.moves)
  THEN LET m == f.moves[f.i + 1]
           f1 == [ f EXCEPT !.i = @ + 1, !.m = m ]
           child == Append(f.node, m)
       IN IF f1.i = 1
          THEN Calls([ f1 EXCEPT !.pc = "after_first" ],
                     Frame("negamax", child, -f.beta, -f.alpha, f.depth - 1, "root_first"), t)
          ELSE Calls([ f1 EXCEPT !.pc = "after_pvs" ],
                     Frame("negamax", child, -f.alpha - 1, -f.alpha, f.depth - 1, "root_pvs"), t)
  ELSE IF ~stop
       THEN LET e == TTField_new(f.node, "Exact", f.best_move, f.alpha, f.depth)
            IN Returns(f, "end", f.alpha, f.best_move, insert(t, e), e)
       ELSE Returns(f, "end", f.alpha, f.best_move, t, None)

\* search_root that stores the partial result before it looks at stop
search_root_after_move_StoresWhenStopped(g, f, t, stop, eval) ==
  IF eval > f.alpha
  THEN LET e == TTField_new(f.node, "Upper", f.m, eval, f.depth)
       IN IF stop THEN Returns(f, "stopped", 0, NULL_MOVE, insert(t, e), e)
          ELSE search_root_continue(g, [ f EXCEPT !.best_move = f.m, !.alpha = eval,
                                                  !.raised = f.m ], insert(t, e), stop)
  ELSE IF stop THEN Returns(f, "stopped", 0, NULL_MOVE, t, None)
  ELSE search_root_continue(g, f, t, stop)

\* the tail of the loop of search_root once eval is final
search_root_after_move(g, f, t, stop, eval) ==
  IF stop THEN Returns(f, "stopped", 0, NULL_MOVE, t, None)
  ELSE IF eval > f.alpha
  THEN LET f1 == [ f EXCEPT !.best_move = f.m, !.alpha = eval, !.raised = f.m ]
       IN IF eval >= f.beta
          THEN LET e == TTField_new(f.node, "Lower", f.m, f.beta, f.depth)
               IN Returns(f1, "cutoff", f.beta, f.m, insert(t, e), e)
          ELSE search_root_continue(g, f1,
                 insert(t, TTField_new(f.node, "Upper", f.m, eval, f.depth)), stop)
  ELSE search_root_continue(g, f, t, stop)

\* search_root up to its first call: the check extension and the table move
search_root_entry(g, f, t) ==
  LET pos == Position_new(g, f.node)
      in_check == Position_king_in_check(pos)
      entry == probe(t, Position_hash(pos))
      tt_move == IF entry = None THEN NULL_MOVE ELSE entry.best_move
  IN search_root_continue(g,
       [ f EXCEPT !.in_check = in_check,
                  !.depth = IF in_check THEN @ + 1 ELSE @,
                  !.entry = entry,
                  !.moves = Position_generate_moves(pos, tt_move) ], t, FALSE)

search_root_after_pvs(g, f, t, stop, value) ==
  IF -value > f.alpha /\ -value < f.beta /\ ~stop
  THEN Calls([ f EXCEPT !.pc = "after_full" ],
             Frame("negamax", Append(f.node, f.m), -f.beta, -f.alpha,
                   f.depth - 1, "root_full"), t)
  ELSE search_root_after_move(g, f, t, stop, -value)

(***************************************************************************)
(* uci.rs : the controller thread parses the lines of stdin; the engine    *)
(* thread handles the commands sent over the channel                       *)
(***************************************************************************)
\* rnbqkbnr/pppppppp/8/8/8/8/PPPPPPPP/RNBQKBNR w KQkq - 0 1
StartFen ==
  <<<<"r","n","b","q","k","b","n","r","/","p","p","p","p","p","p","p","p","/","8","/","8","/","8","/","8","/","P","P","P","P","P","P","P","P","/","R","N","B","Q","K","B","N","R">>, "w", "KQkq", "-", <<"0">>, "1">>

Board_default == try_from(StartFen).board

DEFAULT_GO_DEPTH == 5

ParseErr == [ ok |-> FALSE ]
Command(c) == [ ok |-> TRUE, command |-> c ]

\* impl TryFrom<&str> for UCICommand; a line is the record of its tokens
UCICommand_try_from(line) ==
  CASE line.cmd \in { "ucinewgame", "uci", "option", "isready", "stop", "quit" } ->
         Command([ kind |-> line.cmd ])
    [] line.cmd = "go" ->
         IF line.sub = "depth"
         THEN IF line.depth >= 0
              THEN Command([ kind |-> "go", depth |-> line.depth ])
              ELSE ParseErr
         ELSE Command([ kind |-> "go", depth |-> DEFAULT_GO_DEPTH ])
    [] line.cmd = "position" ->
         IF line.sub = "startpos"
         THEN Command([ kind |-> "position", board |-> Board_default,
                        moves |-> line.moves ])
         ELSE IF line.sub = "fen"
         THEN IF try_from(line.fen).ok
              THEN Command([ kind |-> "position", board |-> try_from(line.fen).board,
                             moves |-> line.moves ])
              ELSE ParseErr
         ELSE ParseErr
    [] OTHER -> ParseErr

\* the generated moves whose string is the token
find_move(b, move_string) ==
  { m \in generate_moves(b) : move_to_string(m) = move_string }

\* the loop of the position handler over the move tokens: a token found in the
\* generated list is made on the board, any other is reported
RECURSIVE apply_moves(_, _, _)
apply_moves(b, moves, reported) ==
  IF moves = << >> THEN [ board |-> b, reported |-> reported ]
  ELSE LET found == find_move(b, Head(moves))
       IN IF found # {}
          THEN apply_moves(make_move(b, CHOOSE m \in found : TRUE), Tail(moves), reported)
          ELSE apply_moves(b, Tail(moves), reported + 1)

\* the generated moves in the order the search visits them
RECURSIVE MoveSeq(_)
MoveSeq(moves) ==
  IF moves = {} THEN << >>
  ELSE LET m == CHOOSE x \in moves : TRUE
       IN << m >> \o MoveSeq(moves \ { m })

\* the u64 of a ZHash, as the table indexes it
RECURSIVE zhash_u64(_)
zhash_u64(h) ==
  IF h = {} THEN 0
  ELSE LET k == CHOOSE x \in h : TRUE
       IN (k * 7919 + zhash_u64(h \ { k })) % 1048576

(***************************************************************************)
(* State                                                                   *)
(***************************************************************************)
VARIABLES
  board,        \* UCIEngine.board: the current position
  start,        \* the Board of the last position command (history)
  ply,          \* number of moves made since the position command
  nodes,        \* depth and result of the last perft call on board
  tt,           \* the transposition table
  tt_before,    \* the table as it was before the last call (history)
  tt_call,      \* the last call on the table and what it returned (history)
  search,       \* the Search of the running go command and its locals
  completed,    \* move and depth of the last iteration that completed (history)
  interrupted,  \* Search.stop was set during an iteration (history)
  fen_in,       \* the FEN handed to Board::try_from
  fen_out,      \* what Board::try_from returned
  stdin,        \* the lines the controller has still to read
  channel,      \* the commands sent to the engine thread and not yet received
  stop,         \* the AtomicBool shared by controller and engine
  running,      \* UCIController::run has not returned
  uci_hist,     \* what the last position command was, and what was seen of stop (history)
  history,      \* one score of a HistoryTable or DoubleHistoryTable
  mb_size,      \* the argument the table was built with by TT::new
  position,     \* Search.position: the game and the node the search stands on
  stack,        \* the calls of search_root, negamax and quiescence in progress
  ret           \* the last return of one of them (history)

chessVars == << board, start, ply, nodes >>
ttVars == << tt, tt_before, tt_call >>
searchVars == << search, completed, interrupted >>
fenVars == << fen_in, fen_out >>
uciVars == << stdin, channel, stop, running, uci_hist >>
stackVars == << position, stack, ret >>
auxVars == << history, mb_size, position, stack, ret >>
vars == << board, start, ply, nodes, tt, tt_before, tt_call, search, completed, interrupted,
           fen_in, fen_out, stdin, channel, stop, running, uci_hist,
           history, mb_size, position, stack, ret >>

MaxPly == 2
MaxTTDepth == 2
MaxTTStep == 1
MaxSearchDepth == 5
MaxRanks == 9
MaxQueue == 2
MaxPerftPly == 4
MaxHistoryDepth == 21
MaxMb == 3
MaxGame == 3
MaxRootDepth == 4
MaxSearched == 1

NoCall == [ op |-> "none" ]
TTIdle == tt = TT_default /\ tt_before = TT_default /\ tt_call = NoCall
NoCount == << >>
ChessIdle == board = BoardNew /\ start = BoardNew /\ ply = 0 /\ nodes = NoCount
NoIteration == << NULL_MOVE, 0 >>
SearchIdling == search = SearchIdle /\ completed = NoIteration /\ interrupted = FALSE
NotParsed == [ ok |-> FALSE, pending |-> TRUE ]
FenIdle == fen_in = << >> /\ fen_out = NotParsed
StackIdle == position = Position_new(0, << >>) /\ stack = << >> /\ ret = NoReturn
AuxIdle == history = 0 /\ mb_size = DEFAULT_MB /\ StackIdle
\* stored: the keys searches have stored since the last ucinewgame; cleared:
\* the keys stored before it; at_start: no position command since it;
\* reused: a go was started on a table that held stored entries
NoUciHist ==
  [ position |-> << >>, stop_during_go |-> FALSE, polled_after_stop |-> FALSE,
    stored |-> {}, cleared |-> {}, at_start |-> FALSE, reused |-> FALSE ]
UciIdle ==
  /\ AuxIdle
  /\ stdin = << >>
  /\ channel = << >>
  /\ stop = FALSE
  /\ running = TRUE
  /\ uci_hist = NoUciHist

(***************************************************************************)
(* Spec: positions set up from a FEN and played on with generated moves    *)
(***************************************************************************)
InitChess ==
  /\ \E f \in LegalFens \cup IllegalFens \cup EnPassantFens :
       /\ try_from(f).ok
       /\ start = try_from(f).board
  /\ board = start
  /\ ply = 0
  /\ nodes = NoCount
  /\ TTIdle
  /\ SearchIdling
  /\ FenIdle
  /\ UciIdle

\* generate_moves would unwrap a missing captured piece
Panics(b) == \E m \in generate_moves(b) : m.is_capture /\ m.capture = NoPiece

\* one move of the generated list is made on the board
MakeMove ==
  /\ ply < MaxPly
  /\ ~Panics(board)
  /\ \E m \in generate_moves(board) : board' = make_move(board, m)
  /\ ply' = ply + 1
  /\ UNCHANGED << start, nodes, ttVars, searchVars, fenVars, auxVars, uciVars >>

Init == InitChess
Next == MakeMove
Spec == Init /\ [][Next]_vars

(***************************************************************************)
(* SpecPerft: perft on the self-stalemate position of the perft suite and  *)
(* on the positions of its tree                                            *)
(***************************************************************************)
InitPerft ==
  /\ start = try_from(FenSelfStalemate).board
  /\ board = start
  /\ ply = 0
  /\ nodes = NoCount
  /\ TTIdle
  /\ SearchIdling
  /\ FenIdle
  /\ UciIdle

\* perft to the depth that is left of the suite's depth
PerftCall ==
  /\ nodes = NoCount
  /\ LET depth == PERFT_SUITE_DEPTH - ply
     IN nodes' = [ fn |-> "perft", depth |-> depth, count |-> perft(board, depth) ]
  /\ UNCHANGED << board, start, ply, ttVars, searchVars, fenVars, auxVars, uciVars >>

\* the two base cases of perft_driver
PerftDriverCall ==
  /\ nodes = NoCount
  /\ \E depth \in 0..1 :
       nodes' = [ fn |-> "perft_driver", depth |-> depth,
                  count |-> perft_driver(board, depth) ]
  /\ UNCHANGED << board, start, ply, ttVars, searchVars, fenVars, auxVars, uciVars >>

\* go down one move of the tree
PerftDescend ==
  /\ ply < MaxPerftPly
  /\ \E m \in generate_moves(board) : board' = make_move(board, m)
  /\ ply' = ply + 1
  /\ nodes' = NoCount
  /\ UNCHANGED << start, ttVars, searchVars, fenVars, auxVars, uciVars >>

NextPerft == PerftCall \/ PerftDriverCall \/ PerftDescend
SpecPerft == InitPerft /\ [][NextPerft]_vars

(***************************************************************************)
(* SpecHistory: one history score under every sequence of updates          *)
(***************************************************************************)
InitHistory ==
  /\ history = 0
  /\ mb_size = DEFAULT_MB
  /\ StackIdle
  /\ TTIdle
  /\ ChessIdle
  /\ SearchIdling
  /\ FenIdle
  /\ stdin = << >>
  /\ channel = << >>
  /\ stop = FALSE
  /\ running = TRUE
  /\ uci_hist = NoUciHist

HistoryUpdate ==
  /\ \E depth \in 1..MaxHistoryDepth, curr \in BOOLEAN, searched \in 0..MaxSearched :
       history' = update(history, history_bonus(depth), curr, searched)
  /\ UNCHANGED << mb_size, stackVars, chessVars, ttVars, searchVars, fenVars, uciVars >>

NextHistory == HistoryUpdate
SpecHistory == InitHistory /\ [][NextHistory]_vars

(***************************************************************************)
(* SpecTT: inserts and probes on TT::default()                             *)
(***************************************************************************)
\* keys 5 and 5 + 2^23 share a slot of the default table; 8388607 is its bitmask
TTKeys == { 5, 8388613, 8388607 }
TTEntries ==
  { TTField(k, NULL_MOVE, d, st, 100, "Exact") :
      k \in TTKeys, d \in 0..MaxTTDepth, st \in 0..MaxTTStep }

InitTT == TTIdle /\ ChessIdle /\ SearchIdling /\ FenIdle /\ UciIdle

Insert ==
  \E entry \in TTEntries :
    /\ tt' \in InsertOutcomes(tt, entry)
    /\ tt_before' = tt
    /\ tt_call' = [ op |-> "insert", entry |-> entry ]
    /\ UNCHANGED << chessVars, searchVars, fenVars, auxVars, uciVars >>

Probe ==
  \E hash \in TTKeys \cup { NULL_KEY } :
    /\ \E result \in ProbeOutcomes(tt, hash) :
         tt_call' = [ op |-> "probe", hash |-> hash, result |-> result ]
    /\ tt_before' = tt
    /\ UNCHANGED << tt, chessVars, searchVars, fenVars, auxVars, uciVars >>

NextTT == Insert \/ Probe
SpecTT == InitTT /\ [][NextTT]_vars

(***************************************************************************)
(* SpecTTNew: inserts and probes on TT::new(mb_size)                       *)
(***************************************************************************)
InitTTNew ==
  /\ mb_size \in 0..MaxMb
  /\ tt = TT_new(mb_size)
  /\ tt_before = tt
  /\ tt_call = NoCall
  /\ history = 0
  /\ StackIdle
  /\ ChessIdle
  /\ SearchIdling
  /\ FenIdle
  /\ stdin = << >>
  /\ channel = << >>
  /\ stop = FALSE
  /\ running = TRUE
  /\ uci_hist = NoUciHist

SpecTTNew == InitTTNew /\ [][NextTT]_vars

(***************************************************************************)
(* SpecSearch: one iterative_search, every clock and every oracle answer   *)
(***************************************************************************)
Evals == { -60, 0, 60, MATE - 1 }
Outcomes(clock) ==
  { [ eval |-> e, stop |-> st ] :
      e \in Evals, st \in IF clock.expires THEN BOOLEAN ELSE { FALSE } }
RootMoveLists == { << >>, << 1 >>, << 1, 2 >> }

InitSearch ==
  /\ \E d \in 1..MaxSearchDepth, e \in BOOLEAN, moves \in RootMoveLists :
       search = Search_new(Clock(d, e), moves, 5)
  /\ completed = NoIteration
  /\ interrupted = FALSE
  /\ TTIdle
  /\ ChessIdle
  /\ FenIdle
  /\ UciIdle

\* what search_root returned counts as a completed iteration when stop is
\* not set and the score is strictly inside the window of the iteration
Returned(r) ==
  /\ completed' = IF /\ r.ret # NoResult
                     /\ ~r.s.stop
                     /\ search.alpha < r.ret[1]
                     /\ r.ret[1] < search.beta
                  THEN << r.ret[2], search.depth >>
                  ELSE completed
  /\ interrupted' = (interrupted \/ r.s.stop)

SearchIterate ==
  /\ search.pc = "loop"
  /\ LoopCond(search)
  /\ search' = EnterRoot(search)
  /\ UNCHANGED << completed, interrupted, tt >>

SearchRootMove ==
  /\ search.pc = "root"
  /\ search.r_i <= Len(search.moves)
  /\ \E o1, o2 \in Outcomes(search.clock) :
       LET r == RootMove(search, tt, o1, o2)
       IN /\ search' = Resume(r)
          /\ tt' = r.t
          /\ Returned(r)

SearchRootEnd ==
  /\ search.pc = "root"
  /\ search.r_i > Len(search.moves)
  /\ LET r == RootEnd(search, tt)
     IN /\ search' = Resume(r)
        /\ tt' = r.t
        /\ Returned(r)

SearchFinish ==
  /\ search.pc = "loop"
  /\ ~LoopCond(search)
  /\ search' = Finish(search)
  /\ UNCHANGED << completed, interrupted, tt >>

SearchStep == SearchIterate \/ SearchRootMove \/ SearchRootEnd \/ SearchFinish

NextSearch == SearchStep /\ UNCHANGED << chessVars, tt_before, tt_call, fenVars, auxVars, uciVars >>
SpecSearch == InitSearch /\ [][NextSearch]_vars

(***************************************************************************)
(* SpecSearchLive: iterative_search runs on; the clocks include one that   *)
(* never refuses a depth                                                   *)
(***************************************************************************)
InitSearchLive ==
  /\ \/ \E d \in 1..MaxSearchDepth, e \in BOOLEAN, moves \in RootMoveLists :
          search = Search_new(Clock(d, e), moves, 5)
     \/ search = Search_new(Clock(MAX_DEPTH, FALSE), << 1 >>, 5)
  /\ completed = NoIteration
  /\ interrupted = FALSE
  /\ TTIdle
  /\ ChessIdle
  /\ FenIdle
  /\ UciIdle

SpecSearchLive == InitSearchLive /\ [][NextSearch]_vars /\ WF_vars(NextSearch)

(***************************************************************************)
(* SpecNegamax: one call of search_root, with the calls of negamax and     *)
(* quiescence below it, on the trees of Position                           *)
(***************************************************************************)
Top == stack[Len(stack)]
\* Clock::mid_check: a clock that can expire may answer either way
Poll == IF search.clock.expires THEN BOOLEAN ELSE { TRUE }

\* the tables a search can start on: the empty one, or one that holds an
\* entry of an earlier search for the node after a root move
StoredDepths == { 1, 3 }
StoredValues == { -25, 25 }
EarlierTables ==
  { insert(TT_default, TTField_new(<< m >>, flag, 2, value, depth)) :
      m \in 1..Width[1], flag \in { "Exact", "Lower", "Upper" },
      value \in StoredValues, depth \in StoredDepths }

InitNegamax ==
  /\ \E game \in 1..MaxGame, depth \in 1..MaxRootDepth, expires \in BOOLEAN :
       /\ position = Position_new(game, << >>)
       /\ search = [ Search_new(Clock(depth, expires), << >>, PositionKey(<< >>))
                       EXCEPT !.pc = "frames", !.depth = depth ]
       /\ stack = << Frame("search_root", << >>, -MATE, MATE, depth, "iterative_search") >>
       /\ IF expires \/ depth # 3 THEN tt = TT_default
          ELSE tt \in { TT_default } \cup EarlierTables
  /\ ret = NoReturn
  /\ tt_before = TT_default
  /\ tt_call = NoCall
  /\ completed = NoIteration
  /\ interrupted = FALSE
  /\ history = 0
  /\ mb_size = DEFAULT_MB
  /\ ChessIdle
  /\ FenIdle
  /\ stdin = << >>
  /\ channel = << >>
  /\ stop = FALSE
  /\ running = TRUE
  /\ uci_hist = NoUciHist

\* the step taken: the frame on top is replaced and the callee pushed, or the
\* frame is popped and its return kept; the position follows the top frame
Apply(out, stopped) ==
  /\ search' = [ search EXCEPT !.stop = stopped ]
  /\ tt' = out.t
  /\ IF out.kind = "call"
     THEN /\ stack' = Append([ stack EXCEPT ![Len(stack)] = out.frame ], out.child)
          /\ ret' = ret
          /\ position' = [ position EXCEPT !.node = out.child.node ]
     ELSE /\ stack' = SubSeq(stack, 1, Len(stack) - 1)
          /\ ret' = [ out.ret EXCEPT !.stopped = stopped ]
          /\ position' = [ position EXCEPT !.node =
                             IF Len(stack) = 1 THEN Top.node ELSE stack[Len(stack) - 1].node ]

Running(fn, pc) == stack # << >> /\ Top.fn = fn /\ Top.pc = pc

SearchRootEntry ==
  /\ Running("search_root", "entry")
  /\ Apply(search_root_entry(position.game, Top, tt), search.stop)

SearchRootAfterFirst ==
  /\ Running("search_root", "after_first")
  /\ Apply(search_root_after_move(position.game, [ Top EXCEPT !.best_move = Top.m ], tt,
                                  search.stop, -ret.value), search.stop)

SearchRootAfterPvs ==
  /\ Running("search_root", "after_pvs")
  /\ Apply(search_root_after_pvs(position.game, Top, tt, search.stop, ret.value), search.stop)

SearchRootAfterFull ==
  /\ Running("search_root", "after_full")
  /\ Apply(search_root_after_move(position.game, Top, tt, search.stop, -ret.value), search.stop)

NegamaxEntry ==
  /\ Running("negamax", "entry")
  /\ \E ok \in Poll :
       IF search.stop \/ ~ok
       THEN Apply(Returns(Top, "stop", 0, NULL_MOVE, tt, None), TRUE)
       ELSE Apply(negamax_entry(position.game, Top, tt), FALSE)

NegamaxLeaf ==
  /\ Running("negamax", "leaf")
  /\ Apply(Returns(Top, "quiescence", ret.value, NULL_MOVE, tt, None), search.stop)

NegamaxAfterNull ==
  /\ Running("negamax", "after_null")
  /\ Apply(negamax_after_null(position.game, Top, tt, search.stop, ret.value), search.stop)

NegamaxAfterFirst ==
  /\ Running("negamax", "after_first")
  /\ Apply(negamax_after_move(position.game, [ Top EXCEPT !.best_move = Top.m ], tt,
                              search.stop, -ret.value), search.stop)

NegamaxAfterLmr ==
  /\ Running("negamax", "after_lmr")
  /\ Apply(negamax_after_lmr(position.game, Top, tt, search.stop, ret.value), search.stop)

NegamaxAfterPvs ==
  /\ Running("negamax", "after_pvs")
  /\ Apply(negamax_after_pvs(position.game, Top, tt, search.stop, ret.value), search.stop)

NegamaxAfterFull ==
  /\ Running("negamax", "after_full")
  /\ Apply(negamax_after_move(position.game, Top, tt, search.stop, -ret.value), search.stop)

QuiescenceEntry ==
  /\ Running("quiescence", "entry")
  /\ \E ok \in Poll :
       IF search.stop \/ ~ok
       THEN Apply(Returns(Top, "stop", 0, NULL_MOVE, tt, None), TRUE)
       ELSE Apply(quiescence_entry(position.game, Top, tt), FALSE)

QuiescenceAfter ==
  /\ Running("quiescence", "after_capture")
  /\ Apply(quiescence_after(position.game, Top, tt, ret.value), search.stop)

StackStep ==
  \/ SearchRootEntry \/ SearchRootAfterFirst \/ SearchRootAfterPvs \/ SearchRootAfterFull
  \/ NegamaxEntry \/ NegamaxLeaf \/ NegamaxAfterNull \/ NegamaxAfterFirst
  \/ NegamaxAfterLmr \/ NegamaxAfterPvs \/ NegamaxAfterFull
  \/ QuiescenceEntry \/ QuiescenceAfter

NextNegamax ==
  StackStep /\ UNCHANGED << chessVars, tt_before, tt_call, completed, interrupted,
                            history, mb_size, fenVars, uciVars >>
SpecNegamax == InitNegamax /\ [][NextNegamax]_vars

(***************************************************************************)
(* SpecFen: Board::try_from on FENs with one to MaxRanks ranks, one of     *)
(* them unusual, and usual or unusual other fields                         *)
(***************************************************************************)
RankStrings ==
  { << "8" >>, << "k", "7" >>, << "4", "K", "3" >>, << "7" >>,
    << "p", "8" >>, << "x", "7" >>, << "4", "5" >> }

RECURSIVE JoinRanks(_)
JoinRanks(ranks) ==
  IF Len(ranks) = 0 THEN << >>
  ELSE IF Len(ranks) = 1 THEN ranks[1]
  ELSE ranks[1] \o << "/" >> \o JoinRanks(Tail(ranks))

\* n ranks, all empty but the one at pos
Placement(n, pos, special) ==
  JoinRanks([ i \in 1..n |-> IF i = pos THEN special ELSE << "8" >> ])

Placements ==
  { Placement(n, pos, special) :
      n \in 1..MaxRanks, pos \in { 1 }, special \in RankStrings }
  \cup { Placement(8, 8, special) : special \in RankStrings }

FenInputs ==
  { << pl, side, castle, ep, half, "1" >> :
      pl \in Placements, side \in { "w", "x" }, castle \in { "KQkq", "kqKQ" },
      ep \in { "-", "e3", "a9" }, half \in { << "0" >>, << "1", "2" >>, << "-", "1" >> } }
  \cup { << pl, "b", "-", "-", << "0" >> >> : pl \in Placements }
  \cup { << pl, "b", "-", "-", << "0" >>, "1", "extra" >> : pl \in Placements }

InitFen ==
  /\ fen_in \in FenInputs
  /\ fen_out = NotParsed
  /\ ChessIdle
  /\ TTIdle
  /\ SearchIdling
  /\ UciIdle

ParseFen ==
  /\ fen_out = NotParsed
  /\ fen_out' = try_from(fen_in)
  /\ UNCHANGED << fen_in, auxVars, chessVars, ttVars, searchVars, uciVars >>

NextFen == ParseFen
SpecFen == InitFen /\ [][NextFen]_vars

(***************************************************************************)
(* SpecUci: the controller reads a session of lines while the engine       *)
(* thread handles the commands it was sent and runs the searches           *)
(***************************************************************************)
Line(cmd) == [ cmd |-> cmd ]
GoDepthLine(depth) == [ cmd |-> "go", sub |-> "depth", depth |-> depth ]
GoLine == [ cmd |-> "go", sub |-> "" ]
StartposLine(moves) == [ cmd |-> "position", sub |-> "startpos", moves |-> moves ]
FenLine(fen, moves) == [ cmd |-> "position", sub |-> "fen", fen |-> fen, moves |-> moves ]

\* rnbqkbnr/pp2ppppp/7/2p5/4P3/5N2/PPPP1P/RNBQKB1R b - - 1 2
FenInvalidPieces ==
  <<<<"r","n","b","q","k","b","n","r","/","p","p","2","p","p","p","p","p","/","7","/","2","p","5","/","4","P","3","/","5","N","2","/","P","P","P","P","1","P","/","R","N","B","Q","K","B","1","R">>, "b", "-", "-", <<"1">>, "2">>

\* k7/8/1K6/8/8/8/8/6R1 w - - 0 1
FenOneReply ==
  <<<<"k","7","/","8","/","1","K","6","/","8","/","8","/","8","/","8","/","6","R","1">>, "w", "-", "-", <<"0">>, "1">>

Sessions ==
  { << FenLine(FenSelfStalemate, << << "a6", "a5", "" >>, << "a6", "a7", "" >> >>),
       GoDepthLine(2), Line("stop"), Line("isready"), Line("quit") >>,
    << Line("uci"), Line("ucinewgame"),
       StartposLine(<< << "e2", "e5", "" >>, << "e2", "e4", "" >> >>),
       Line("option"), Line("stop"),
       FenLine(FenUnderPromote, << << "a7", "a8", "n" >> >>) >>,
    << Line("xyzzy"), FenLine(FenInvalidPieces, << >>), GoDepthLine(-1),
       FenLine(FenOneReply, << << "g1", "h1", "" >> >>), GoLine, Line("stop"),
       Line("ucinewgame") >>,
    << FenLine(FenOneReply, << << "g1", "h1", "" >> >>), GoDepthLine(1), GoDepthLine(1),
       Line("ucinewgame") >>,
    << Line("stop"), FenLine(FenOneReply, << >>), GoDepthLine(1) >> }

InitUci ==
  /\ stdin \in Sessions
  /\ channel = << >>
  /\ stop = FALSE
  /\ running = TRUE
  /\ uci_hist = NoUciHist
  /\ AuxIdle
  /\ board = Board_default
  /\ start = Board_default
  /\ ply = 0
  /\ nodes = NoCount
  /\ TTIdle
  /\ SearchIdling
  /\ FenIdle

Parsed == UCICommand_try_from(Head(stdin))
Reading == running /\ stdin # << >>
Receiving(kind) ==
  /\ running
  /\ search.pc = "idle"
  /\ channel # << >>
  /\ Head(channel).kind = kind

\* uci and isready are answered by the controller itself
ControllerAnswer ==
  /\ Reading
  /\ Parsed.ok
  /\ Parsed.command.kind \in { "uci", "isready" }
  /\ stdin' = Tail(stdin)
  /\ UNCHANGED << channel, stop, running, uci_hist, chessVars, ttVars, searchVars, fenVars, auxVars >>

ControllerStop ==
  /\ Reading
  /\ Parsed.ok
  /\ Parsed.command.kind = "stop"
  /\ stop' = TRUE
  /\ uci_hist' = [ uci_hist EXCEPT !.stop_during_go = @ \/ search.pc # "idle" ]
  /\ stdin' = Tail(stdin)
  /\ UNCHANGED << channel, running, chessVars, ttVars, searchVars, fenVars, auxVars >>

ControllerQuit ==
  /\ Reading
  /\ Parsed.ok
  /\ Parsed.command.kind = "quit"
  /\ running' = FALSE
  /\ stdin' = Tail(stdin)
  /\ UNCHANGED << channel, stop, uci_hist, chessVars, ttVars, searchVars, fenVars, auxVars >>

ControllerSend ==
  /\ Reading
  /\ Parsed.ok
  /\ Parsed.command.kind \in { "ucinewgame", "position", "go", "option" }
  /\ Len(channel) < MaxQueue
  /\ channel' = Append(channel, Parsed.command)
  /\ stdin' = Tail(stdin)
  /\ UNCHANGED << stop, running, uci_hist, chessVars, ttVars, searchVars, fenVars, auxVars >>

\* a line that does not parse is reported on stderr
ControllerError ==
  /\ Reading
  /\ ~Parsed.ok
  /\ stdin' = Tail(stdin)
  /\ UNCHANGED << channel, stop, running, uci_hist, chessVars, ttVars, searchVars, fenVars, auxVars >>

\* ucinewgame that resets the board and keeps the table
EngineUciNewGame_KeepsTable ==
  /\ Receiving("ucinewgame")
  /\ board' = Board_default
  /\ tt' = tt
  /\ channel' = Tail(channel)
  /\ uci_hist' = [ uci_hist EXCEPT !.cleared = @ \cup uci_hist.stored,
                                   !.stored = {}, !.at_start = TRUE ]
  /\ UNCHANGED << start, ply, nodes, tt_before, tt_call, searchVars, fenVars, auxVars,
                  stdin, stop, running >>

EngineUciNewGame ==
  /\ Receiving("ucinewgame")
  /\ board' = Board_default
  /\ tt' = TT_default
  /\ channel' = Tail(channel)
  /\ uci_hist' = [ uci_hist EXCEPT !.cleared = @ \cup uci_hist.stored,
                                   !.stored = {}, !.at_start = TRUE ]
  /\ UNCHANGED << start, ply, nodes, tt_before, tt_call, searchVars, fenVars, auxVars,
                  stdin, stop, running >>

EnginePosition ==
  /\ Receiving("position")
  /\ LET cmd == Head(channel)
         done == apply_moves(cmd.board, cmd.moves, 0)
     IN /\ board' = done.board
        /\ start' = cmd.board
        /\ ply' = Len(cmd.moves) - done.reported
        /\ nodes' = NoCount
        /\ uci_hist' = [ uci_hist EXCEPT !.position =
                           << [ board |-> cmd.board, moves |-> cmd.moves,
                                reported |-> done.reported ] >>,
                                         !.at_start = FALSE ]
  /\ channel' = Tail(channel)
  /\ UNCHANGED << ttVars, searchVars, fenVars, auxVars, stdin, stop, running >>

EngineGo ==
  /\ Receiving("go")
  /\ search' = Search_new(Clock(Head(channel).depth, FALSE),
                          MoveSeq(generate_moves(board)), zhash_u64(board.hash))
  /\ completed' = NoIteration
  /\ interrupted' = FALSE
  /\ uci_hist' = [ uci_hist EXCEPT !.stop_during_go = FALSE, !.polled_after_stop = FALSE,
                                   !.reused = @ \/ uci_hist.stored # {} ]
  /\ channel' = Tail(channel)
  /\ UNCHANGED << chessVars, ttVars, fenVars, auxVars, stdin, stop, running >>

EngineOption ==
  /\ Receiving("option")
  /\ channel' = Tail(channel)
  /\ UNCHANGED << chessVars, ttVars, searchVars, fenVars, auxVars, stdin, stop, running, uci_hist >>

\* the search of the go handler; every root move searched polls for a stop
EngineSearch ==
  /\ running
  /\ SearchStep
  /\ uci_hist' = [ uci_hist EXCEPT !.polled_after_stop =
                     @ \/ /\ uci_hist.stop_during_go
                          /\ search.pc = "root"
                          /\ search.r_i <= Len(search.moves),
                                   !.stored = IF tt' # tt THEN @ \cup { search.key } ELSE @ ]
  /\ UNCHANGED << chessVars, tt_before, tt_call, fenVars, auxVars, stdin, channel, stop, running >>

\* iterative_search has returned: bestmove is printed
EngineBestMove ==
  /\ running
  /\ search.pc = "done"
  /\ search' = SearchIdle
  /\ UNCHANGED << completed, interrupted, chessVars, ttVars, fenVars, auxVars, uciVars >>

NextUci ==
  \/ ControllerAnswer \/ ControllerStop \/ ControllerQuit
  \/ ControllerSend \/ ControllerError
  \/ EngineUciNewGame \/ EnginePosition \/ EngineGo \/ EngineOption
  \/ EngineSearch \/ EngineBestMove
SpecUci == InitUci /\ [][NextUci]_vars

(***************************************************************************)
(* Properties of move generation and make_move                             *)
(***************************************************************************)
Sound(b) == \A m \in generate_moves(b) : ~KingAttacked(make_move(b, m), b.side)

\* C1 as stated: on every board with exactly one king per side, every
\* generated move leaves the mover's king unattacked
C1_SoundOnEveryBoard == OneKingPerSide(board) => Sound(board)

\* C1 amended: on every board reached by generated moves from a legal
\* starting position, every generated move leaves the mover's king unattacked
C1_SoundFromLegalStart == WellFormed(start) => Sound(board)

\* the mover is in check and the generator still offers moves
C1_Witness ==
  /\ WellFormed(start)
  /\ ply >= 1
  /\ map_king_attackers(board) # {}
  /\ \E m \in generate_moves(board) : m.piece # king(board.side)

\* C2 as stated: on every board the generated moves are exactly the
\* pseudo-legal moves that leave the mover's king unattacked
C2_CompleteOnEveryBoard == generate_moves(board) = LegalReference(board)

\* C2 amended: on every board reached by generated moves from a legal
\* starting position the generated moves are exactly the pseudo-legal moves
\* that leave the mover's king unattacked
C2_CompleteFromLegalStart ==
  WellFormed(start) => generate_moves(board) = LegalReference(board)

\* some pseudo-legal move is rejected for king safety and a castling move is kept
C2_Witness ==
  /\ WellFormed(start)
  /\ PseudoLegal(board) # LegalReference(board)
  /\ \E m \in generate_moves(board) : m.is_castle

\* C3 as stated: from any board built by try_from, after any sequence of
\* generated moves the incremental hash equals the hash rebuilt from scratch
C3_HashOnEveryBoard == board.hash = HashFromScratch(board)

\* C3 amended: from a legal starting position, after any sequence of generated
\* moves the incremental hash equals the hash rebuilt from scratch
C3_HashFromLegalStart == WellFormed(start) => board.hash = HashFromScratch(board)

\* moves were made that changed the castling rights and set an en-passant square
C3_Witness ==
  /\ WellFormed(start)
  /\ ply >= 1
  /\ \/ board.castling_rights # start.castling_rights
     \/ board.en_passant # NoSquare

OccupancyInv(b) ==
  /\ b.occupancy = UNION { b.pieces[p] : p \in Pieces }
  /\ b.occupancy = b.side_occupancy[1] \cup b.side_occupancy[2]
  /\ b.side_occupancy[1] \cap b.side_occupancy[2] = {}

\* C4 as stated: in every board reached from a FEN-parsed board the occupancy
\* is the union of the piece bitboards and of the two disjoint side occupancies
C4_OccupancyOnEveryBoard == OccupancyInv(board)

\* C4 amended: the same, in every board reached from a legal starting position
C4_OccupancyFromLegalStart == WellFormed(start) => OccupancyInv(board)

\* White has just castled kingside
C4_Witness ==
  /\ WellFormed(start)
  /\ ply = 1
  /\ 60 \in start.pieces[WKING]
  /\ 62 \in board.pieces[WKING]
  /\ 61 \in board.pieces[WROOK]

(***************************************************************************)
(* Properties of the transposition table                                   *)
(***************************************************************************)
IsEmptySlot(f) == f = TTFieldDefault
OtherSlotsKept(index) ==
  \A i \in (DOMAIN tt.table \cup DOMAIN tt_before.table) \ {index} :
    Slot(tt, i) = Slot(tt_before, i)

\* C5: insert(entry) overwrites the slot of entry.key with entry whenever the
\* slot is empty, or entry.step exceeds the slot's step, or entry.depth is at
\* least the slot's depth, whatever key the slot holds; otherwise the slot is
\* unchanged; no other slot is modified
C5_InsertPolicy ==
  tt_call.op = "insert" =>
    LET entry == tt_call.entry
        index == tt_index(tt_before, entry.key)
        old == Slot(tt_before, index)
    IN /\ IF \/ IsEmptySlot(old)
             \/ entry.step > old.step
             \/ entry.depth >= old.depth
          THEN Slot(tt, index) = entry
          ELSE Slot(tt, index) = old
       /\ OtherSlotsKept(index)

\* C6: probe(h) returns an entry only when the key stored in slot h & bitmask
\* is h, so an entry stored for another hash of the same slot is never
\* returned, and the table is left as it was
C6_ProbeFullKey ==
  tt_call.op = "probe" =>
    LET field == Slot(tt_before, tt_index(tt_before, tt_call.hash))
    IN /\ tt_call.result # None =>
            tt_call.result.key = tt_call.hash /\ tt_call.result = field
       /\ field.key # tt_call.hash => tt_call.result = None
       /\ tt = tt_before

\* a probe of a hash whose slot holds the entry of another hash
C6_Witness ==
  /\ tt_call.op = "probe"
  /\ Slot(tt, tt_index(tt, tt_call.hash)).key \notin { NULL_KEY, tt_call.hash }
  /\ tt_call.result = None

(***************************************************************************)
(* Properties of the search driver                                         *)
(***************************************************************************)
\* C7: when stop was set during an iteration, iterative_search returns the best
\* move and the depth of the last iteration that completed before the stop,
\* nothing of the interrupted iteration
C7_StoppedReturnsLastCompleted ==
  (search.pc = "done" /\ interrupted) => search.result = completed

\* a search stopped after at least one iteration completed has returned
C7_Witness ==
  /\ search.pc = "done"
  /\ interrupted
  /\ completed[2] >= 2
  /\ completed[1] # NULL_MOVE
  /\ search.result = completed

(***************************************************************************)
(* Properties of FEN parsing                                               *)
(***************************************************************************)
\* the ranks of a placement field: the runs of characters between slashes
RECURSIVE SplitRanks(_, _)
SplitRanks(chars, current) ==
  IF Len(chars) = 0 THEN << current >>
  ELSE IF chars[1] = "/" THEN << current >> \o SplitRanks(Tail(chars), << >>)
  ELSE SplitRanks(Tail(chars), Append(current, chars[1]))

RECURSIVE RankWidth(_)
RankWidth(chars) ==
  IF Len(chars) = 0 THEN 0
  ELSE (IF DigitValue(chars[1]) \in 1..8 THEN DigitValue(chars[1]) ELSE 1)
       + RankWidth(Tail(chars))

PieceLetters == { "P", "N", "B", "R", "Q", "K", "p", "n", "b", "r", "q", "k" }
ValidRank(chars) ==
  /\ \A i \in 1..Len(chars) : chars[i] \in PieceLetters \/ DigitValue(chars[i]) \in 1..8
  /\ RankWidth(chars) = 8
ValidPlacement(chars) ==
  LET ranks == SplitRanks(chars, << >>)
  IN Len(ranks) = 8 /\ \A i \in 1..8 : ValidRank(ranks[i])
ValidCastling(str) ==
  str \in { "-", "K", "Q", "KQ", "k", "Kk", "Qk", "KQk",
            "q", "Kq", "Qq", "KQq", "kq", "Kkq", "Qkq", "KQkq" }
ValidEnPassant(str) == str = "-" \/ \E sq \in Squares : SQUARE_STR[sq + 1] = str
ValidCount(chars) ==
  Len(chars) > 0 /\ \A i \in 1..Len(chars) : DigitValue(chars[i]) \in 0..9
ValidFen(value) ==
  /\ Len(value) >= 6
  /\ ValidPlacement(value[1])
  /\ value[2] \in { "w", "b" }
  /\ ValidCastling(value[3])
  /\ ValidEnPassant(value[4])
  /\ ValidCount(value[5])

\* C9: try_from returns Err for every invalid FEN: fewer than six fields, a
\* placement that is not eight ranks of eight squares, an unknown piece
\* letter, a side other than w or b, an invalid castling field, an en-passant
\* field that is neither - nor a square, a halfmove field that is no number
C9_InvalidFenIsErr ==
  (fen_out # NotParsed /\ ~ValidFen(fen_in)) => ~fen_out.ok

(***************************************************************************)
(* Properties of the UCI threads                                           *)
(***************************************************************************)
\* C8: a stop line read while a go search runs sets the shared flag at once,
\* and once that search has polled after it, its stop is set so that it returns
C8_StopPreemptsSearch ==
  /\ uci_hist.stop_during_go => stop
  /\ uci_hist.polled_after_stop => search.stop

\* the board the position command must leave: the tokens are made in order up
\* to the first one that is not in the generated list
RECURSIVE apply_until_illegal(_, _)
apply_until_illegal(b, moves) ==
  IF moves = << >> THEN b
  ELSE LET found == { m \in generate_moves(b) : move_to_string(m) = Head(moves) }
       IN IF found = {} THEN b
          ELSE apply_until_illegal(make_move(b, CHOOSE m \in found : TRUE), Tail(moves))

\* C10: when a token of position ... moves is not in the generated list, the
\* error is reported and no later token is applied: the board stays the
\* position reached by the tokens before it
C10_IllegalTokenAborts ==
  uci_hist.position # << >> =>
    LET cmd == uci_hist.position[1]
    IN /\ board = apply_until_illegal(cmd.board, cmd.moves)
       /\ cmd.reported <= 1

(***************************************************************************)
(* Properties of the capture generator                                     *)
(***************************************************************************)
CaptureMoves(b) == { m \in generate_moves(b) : m.is_capture }

\* C11: on every board generate_captures is, as a set, exactly the captures
\* of generate_moves (en-passant captures and capturing promotions
\* included), with the king unchecked, in single check or in double check
C11_CapturesAreTheCaptureMoves == generate_captures(board) = CaptureMoves(board)

\* a board in double check where the king can capture
C11_WitnessDoubleCheck ==
  /\ count_bits(map_king_attackers(board)) > 1
  /\ generate_captures(board) # {}
  /\ generate_captures(board) # generate_moves(board)


(***************************************************************************)
(* Properties of the pin masks                                             *)
(***************************************************************************)
Sgn(x) == IF x > 0 THEN 1 ELSE IF x < 0 THEN -1 ELSE 0
OnLine(a, c) == a # c /\ (file(a) = file(c) \/ rank(a) = rank(c))
OnDiagonal(a, c) == a # c /\ Abs(file(a) - file(c)) = Abs(rank(a) - rank(c))
\* the squares strictly between two squares of a line or diagonal
StrictlyBetween(a, c) ==
  IF ~(OnLine(a, c) \/ OnDiagonal(a, c)) THEN {}
  ELSE { t \in Squares :
           \E j \in 1..6 :
             /\ j < Abs(file(c) - file(a)) \/ j < Abs(rank(c) - rank(a))
             /\ file(t) = file(a) + j * Sgn(file(c) - file(a))
             /\ rank(t) = rank(a) + j * Sgn(rank(c) - rank(a)) }
\* the squares behind c as seen from a
Beyond(a, c) == { t \in Squares : c \in StrictlyBetween(a, t) }

OwnSquares(b) == { sq \in Squares : OwnAt(b, sq) }
\* the enemy sliders that would attack the king once the nearest own piece
\* of the ray is taken away: at most one piece stands between, an own one
Pinners(b, diagonal) ==
  LET k == CHOOSE sq \in Squares : sq \in own_king(b)
      sliders == IF diagonal
                 THEN b.pieces[bishop(NotColor(b.side))] \cup b.pieces[queen(NotColor(b.side))]
                 ELSE b.pieces[rook(NotColor(b.side))] \cup b.pieces[queen(NotColor(b.side))]
  IN { sl \in sliders :
         /\ IF diagonal THEN OnDiagonal(k, sl) ELSE OnLine(k, sl)
         /\ Cardinality({ t \in StrictlyBetween(k, sl) : ~EmptyAt(b, t) }) <= 1
         /\ \A t \in StrictlyBetween(k, sl) : EmptyAt(b, t) \/ OwnAt(b, t) }

PinMaskCovers(b, mask, diagonal) ==
  LET k == CHOOSE sq \in Squares : sq \in own_king(b)
  IN \A sl \in Pinners(b, diagonal) :
       /\ sl \in mask
       /\ StrictlyBetween(k, sl) \subseteq mask
       /\ Beyond(k, sl) \cap mask = {}

\* C13: on a board with an own king each pin mask of map_pins holds every pinning slider and the squares
\* strictly between it and the king and no square behind the slider, and
\* pinned is exactly the set of own pieces standing on either mask
C13_PinMasks ==
  own_king(board) # {} =>
  LET pins == map_pins(board)
  IN /\ PinMaskCovers(board, pins[2], TRUE)
     /\ PinMaskCovers(board, pins[3], FALSE)
     /\ pins[1] = OwnSquares(board) \cap (pins[2] \cup pins[3])

\* the masks are nothing more than the rays of the pinning sliders
PinMasksExact ==
  own_king(board) # {} =>
  LET pins == map_pins(board)
      k == CHOOSE sq \in Squares : sq \in own_king(board)
  IN /\ pins[2] = UNION { StrictlyBetween(k, sl) \cup {sl} : sl \in Pinners(board, TRUE) }
     /\ pins[3] = UNION { StrictlyBetween(k, sl) \cup {sl} : sl \in Pinners(board, FALSE) }

\* pieces are pinned on a diagonal and on a file at once, and an enemy slider
\* aligned with the king behind two pieces pins nothing
C13_Witness ==
  LET pins == map_pins(board)
  IN /\ pins[1] \cap pins[2] # {}
     /\ pins[1] \cap pins[3] # {}
     /\ \E sl \in opp_queen_rook(board) :
          /\ OnLine(lsb(own_king(board)), sl)
          /\ sl \notin pins[3]


(***************************************************************************)
(* Properties of en-passant captures                                       *)
(***************************************************************************)
KingSquare(b) == CHOOSE sq \in Squares : sq \in own_king(b)
\* the squares of the enemy pieces giving check
Checkers(b) ==
  LET k == KingSquare(b)
      opp == NotColor(b.side)
  IN   { sq \in b.pieces[pawn(opp)] : k \in pawn_attacks(sq, opp) }
  \cup { sq \in b.pieces[knight(opp)] : k \in knight_attacks(sq) }
  \cup { sq \in b.pieces[bishop(opp)] \cup b.pieces[queen(opp)] :
           OnDiagonal(k, sq) /\ \A t \in StrictlyBetween(k, sq) : EmptyAt(b, t) }
  \cup { sq \in b.pieces[rook(opp)] \cup b.pieces[queen(opp)] :
           OnLine(k, sq) /\ \A t \in StrictlyBetween(k, sq) : EmptyAt(b, t) }
  \cup { sq \in b.pieces[king(opp)] : k \in king_attacks(sq) }

\* the ray of the slider pinning the piece on src, empty when it is not pinned
PinRay(b, src, diagonal) ==
  UNION { StrictlyBetween(KingSquare(b), sl) \cup {sl} :
            sl \in { p \in Pinners(b, diagonal) : src \in StrictlyBetween(KingSquare(b), p) } }

\* the own pawns the rule lets capture en passant
EnPassantAllowed(b) ==
  IF b.en_passant = NoSquare \/ Cardinality(Checkers(b)) > 1 THEN {}
  ELSE
    LET ep == b.en_passant
        k == KingSquare(b)
        dr == IF b.side = White THEN -1 ELSE 1
    IN { src \in b.pieces[pawn(b.side)] :
           LET taken == from_coords(file(ep), rank(src))
               others == { t \in Squares : ~EmptyAt(b, t) } \ { src, taken }
           IN \* the pawn attacks the en-passant square
              /\ rank(ep) = rank(src) + dr
              /\ Abs(file(ep) - file(src)) = 1
              \* never when pinned on a file or rank, only along a diagonal pin
              /\ PinRay(b, src, FALSE) = {}
              /\ PinRay(b, src, TRUE) # {} => ep \in PinRay(b, src, TRUE)
              \* in check: take the checking pawn or step between king and checker
              /\ \A c \in Checkers(b) : taken = c \/ ep \in StrictlyBetween(k, c)
              \* with both pawns gone no rook or queen of the rank sees the king
              /\ ~ /\ rank(k) = rank(src)
                   /\ \E sl \in b.pieces[rook(NotColor(b.side))]
                                  \cup b.pieces[queen(NotColor(b.side))] :
                        /\ rank(sl) = rank(k)
                        /\ StrictlyBetween(k, sl) \cap others = {} }

EnPassantSources(b) == { m.src : m \in { n \in generate_moves(b) : n.is_enpassant } }

\* C12: an en-passant capture is generated exactly for the pawns that attack
\* the en-passant square (along the pin ray when pinned diagonally, never
\* when pinned on a file or rank), that under a single check take the
\* checking pawn or land between king and checker, and whose capture does
\* not open the rank of the king to an enemy rook or queen
C12_EnPassantExactlyWhenAllowed ==
  own_king(board) # {} =>
    /\ EnPassantSources(board) = EnPassantAllowed(board)
    /\ \A m \in generate_moves(board) :
         m.is_enpassant => m.tgt = board.en_passant /\ m.piece = pawn(board.side)

\* a double push has just been answered: an en-passant capture blocks a
\* check, or takes the checking pawn
C12_WitnessInCheck ==
  /\ board.en_passant # NoSquare
  /\ Cardinality(Checkers(board)) = 1
  /\ EnPassantSources(board) # {}


(***************************************************************************)
(* Properties of the transposition table across commands                   *)
(***************************************************************************)
\* C14: once ucinewgame is processed every probe for an entry of an earlier
\* search misses and the board is the starting position (until the next
\* position command); without ucinewgame the entries the searches stored
\* stay in the table for the next go
C14_TableLivesUntilNewGame ==
  /\ uci_hist.at_start => board = Board_default
  /\ \A k \in uci_hist.cleared \ uci_hist.stored : probe(tt, k) = None
  /\ \A k \in uci_hist.stored : probe(tt, k) # None

\* a second go has run on the entries of the first, and ucinewgame has then
\* emptied the table
C14_Witness ==
  /\ uci_hist.reused
  /\ uci_hist.at_start
  /\ uci_hist.cleared # {}
  /\ tt = TT_default


(***************************************************************************)
(* Properties of perft                                                     *)
(***************************************************************************)
\* the lines of play of d moves from b: the leaves of the tree of depth d
RECURSIVE Lines(_, _)
Lines(b, d) ==
  IF d = 0 THEN { << >> }
  ELSE UNION { { << m >> \o l : l \in Lines(make_move(b, m), d - 1) } :
                 m \in generate_moves(b) }

\* C15: perft(6) on K1k5/8/P7/8/8/8/8/8 w - - 0 1 is 2217, the number of
\* leaves at depth 6 of the tree of generated moves; perft_driver is 1 at
\* depth 0 and the number of generated moves at depth 1
C15_PerftSelfStalemate ==
  nodes # NoCount =>
    /\ nodes.count = Cardinality(Lines(board, nodes.depth))
    /\ (ply = 0 /\ nodes.fn = "perft") => nodes.depth = 6 /\ nodes.count = 2217
    /\ (nodes.fn = "perft_driver" /\ nodes.depth = 0) => nodes.count = 1
    /\ (nodes.fn = "perft_driver" /\ nodes.depth = 1) =>
         nodes.count = Cardinality(generate_moves(board))

\* perft(6) has returned on the suite position
C15_Witness ==
  /\ ply = 0
  /\ board = try_from(FenSelfStalemate).board
  /\ nodes # NoCount
  /\ nodes.fn = "perft"
  /\ nodes.depth = 6


(***************************************************************************)
(* Properties of the kings                                                 *)
(***************************************************************************)
KingsStay(b) ==
  /\ OneKingPerSide(b)
  /\ \A m \in generate_moves(b) \cup generate_captures(b) :
       m.is_capture => m.capture \notin { WKING, BKING }

\* C16 as stated: from every FEN-parsed board with one king per side, every
\* board reached by generated moves has one king per side and no generated
\* move captures a king
C16_KingsOnEveryBoard == OneKingPerSide(start) => KingsStay(board)

\* C16 amended: the same, from a legal starting position
C16_KingsFromLegalStart == WellFormed(start) => KingsStay(board)

\* a capture has been made and the side to move is in check with a capture
\* at hand
C16_Witness ==
  /\ WellFormed(start)
  /\ Cardinality(board.occupancy) < Cardinality(start.occupancy)
  /\ map_king_attackers(board) # {}
  /\ generate_captures(board) # {}


(***************************************************************************)
(* Properties of the en-passant square                                     *)
(***************************************************************************)
\* None, or a square of rank 3 or 6 right behind a pawn of the side that
\* has just moved
EnPassantBehindPawn(b) ==
  \/ b.en_passant = NoSquare
  \/ /\ b.side = Black
     /\ rank(b.en_passant) = 5
     /\ b.en_passant - 8 \in b.pieces[WPAWN]
  \/ /\ b.side = White
     /\ rank(b.en_passant) = 2
     /\ b.en_passant + 8 \in b.pieces[BPAWN]

\* what make_move does to the en-passant square, for every generated move
MakeMoveSetsEnPassant(b) ==
  \A m \in generate_moves(b) :
    LET n == make_move(b, m)
        two_ranks == m.piece \in { WPAWN, BPAWN } /\ Abs(m.tgt - m.src) = 16
    IN /\ m.is_double_push <=> two_ranks
       /\ two_ranks => n.en_passant * 2 = m.src + m.tgt
       /\ ~two_ranks => n.en_passant = NoSquare
       /\ EnPassantBehindPawn(n)

\* C17 as stated: on every board produced by try_from or make_move the
\* en-passant square is None or lies on rank 3 or 6 right behind a pawn that
\* has just made a double push; make_move sets it for a double push only,
\* to the square between source and target, and clears it otherwise
C17_EnPassantOnEveryBoard ==
  EnPassantBehindPawn(board) /\ MakeMoveSetsEnPassant(board)

\* C17 amended: the same for the boards produced by make_move
C17_EnPassantAfterMakeMove ==
  /\ ply >= 1 => EnPassantBehindPawn(board)
  /\ MakeMoveSetsEnPassant(board)

\* a double push has set the square, and a move that is no double push is
\* about to clear it
C17_Witness ==
  /\ ply >= 1
  /\ board.en_passant # NoSquare
  /\ \E m \in generate_moves(board) : ~m.is_double_push


(***************************************************************************)
(* Properties of the ply clocks                                            *)
(***************************************************************************)
\* C18: for every generated move m, make_move(m) gives halfmoves = 0 when m
\* moves a pawn or captures (en passant included) and halfmoves + 1
\* otherwise, and plies_from_null + 1
C18_PlyClocks ==
  \A m \in generate_moves(board) :
    LET n == make_move(board, m)
    IN /\ n.halfmoves = IF m.piece \in { WPAWN, BPAWN } \/ m.is_capture \/ m.is_enpassant
                        THEN 0 ELSE board.halfmoves + 1
       /\ n.plies_from_null = board.plies_from_null + 1

\* the halfmove clock is running and the side to move has a capture by a
\* piece, a pawn move and a quiet piece move
C18_Witness ==
  /\ board.halfmoves > 0
  /\ \E m \in generate_moves(board) : m.is_capture /\ m.piece \notin { WPAWN, BPAWN }
  /\ \E m \in generate_moves(board) : m.piece \in { WPAWN, BPAWN }
  /\ \E m \in generate_moves(board) : ~m.is_capture /\ m.piece \notin { WPAWN, BPAWN }


(***************************************************************************)
(* Properties of double check                                              *)
(***************************************************************************)
\* square t is attacked by the opponent once the king of the side to move
\* is lifted off the board
ThreatenedWithoutKing(b, t) ==
  LET opp == NotColor(b.side)
      k == KingSquare(b)
      Free(s) == s = k \/ EmptyAt(b, s)
  IN \/ \E sq \in b.pieces[pawn(opp)] : t \in pawn_attacks(sq, opp)
     \/ \E sq \in b.pieces[knight(opp)] : t \in knight_attacks(sq)
     \/ \E sq \in b.pieces[bishop(opp)] \cup b.pieces[queen(opp)] :
          OnDiagonal(t, sq) /\ \A s \in StrictlyBetween(t, sq) : Free(s)
     \/ \E sq \in b.pieces[rook(opp)] \cup b.pieces[queen(opp)] :
          OnLine(t, sq) /\ \A s \in StrictlyBetween(t, sq) : Free(s)
     \/ \E sq \in b.pieces[king(opp)] : t \in king_attacks(sq)

\* C19: when two or more enemy pieces attack the king of the side to move,
\* generate_moves and generate_captures return only king moves, none of them
\* castling, and every target is outside the threats computed with the king
\* removed
C19_DoubleCheckOnlyKingMoves ==
  (own_king(board) # {} /\ Cardinality(Checkers(board)) >= 2) =>
    \A m \in generate_moves(board) \cup generate_captures(board) :
      /\ m.piece = king(board.side)
      /\ m.src = KingSquare(board)
      /\ ~m.is_castle
      /\ ~ThreatenedWithoutKing(board, m.tgt)

\* a double check in which the side to move still has castling rights,
\* another piece and a king move
C19_Witness ==
  /\ own_king(board) # {}
  /\ Cardinality(Checkers(board)) >= 2
  /\ board.castling_rights # NO_RIGHTS
  /\ own_occupancy(board) # own_king(board)
  /\ generate_moves(board) # {}

\* a double check in which a square next to the king is safe only while the
\* king shields it
C19_WitnessShielded ==
  /\ own_king(board) # {}
  /\ Cardinality(Checkers(board)) >= 2
  /\ \E t \in king_attacks(KingSquare(board)) \ own_occupancy(board) :
       /\ ThreatenedWithoutKing(board, t)
       /\ t \notin map_king_threats_KeepsKing(board)


(***************************************************************************)
(* Properties of castling                                                  *)
(***************************************************************************)
\* the corner the rook of a castling move stands on
RookCorner(m) == (m.src \div 8) * 8 + (IF file(m.tgt) > file(m.src) THEN 7 ELSE 0)
\* the right a castling move needs
RightNeeded(b, m) ==
  IF file(m.tgt) > file(m.src)
  THEN (IF b.side = White THEN WK ELSE BK)
  ELSE (IF b.side = White THEN WQ ELSE BQ)
\* the squares the king crosses and lands on
KingPath(m) == StrictlyBetween(m.src, m.tgt) \cup { m.tgt }

CastlingAllowed(b, m) ==
  /\ m.piece = king(b.side)
  /\ RightNeeded(b, m) \in b.castling_rights
  /\ Checkers(b) = {}
  /\ \A t \in StrictlyBetween(m.src, RookCorner(m)) : EmptyAt(b, t)
  /\ \A t \in KingPath(m) : ~Attacked(b, t, NotColor(b.side))

\* the b-file square of the side to move
BFileSquare(b) == IF b.side = White THEN 57 ELSE 1

\* queenside castling is there whenever its conditions hold, whether or not
\* the b-file square is attacked
QueensideOffered(b) ==
  LET home == IF b.side = White THEN 60 ELSE 4
      m == [src |-> home, tgt |-> home - 2]
  IN ( /\ (IF b.side = White THEN WQ ELSE BQ) \in b.castling_rights
       /\ Checkers(b) = {}
       /\ \A t \in StrictlyBetween(home, home - 4) : EmptyAt(b, t)
       /\ \A t \in KingPath(m) : ~Attacked(b, t, NotColor(b.side)) )
     => \E c \in generate_moves(b) : c.is_castle /\ c.tgt = home - 2

\* C20: a castling move is generated only when the right is held, the king
\* is not in check, the squares between king and rook are empty and the
\* squares the king crosses and lands on are not attacked; an attack on the
\* queenside b-file square does not prevent it
C20_CastlingConditions ==
  own_king(board) # {} =>
    /\ \A m \in generate_moves(board) : m.is_castle => CastlingAllowed(board, m)
    /\ QueensideOffered(board)

\* queenside castling is generated while the b-file square is attacked
C20_WitnessBFileAttacked ==
  /\ \E m \in generate_moves(board) : m.is_castle /\ file(m.tgt) < file(m.src)
  /\ Attacked(board, BFileSquare(board), NotColor(board.side))

\* a side that holds a right, is not in check and has the squares empty is
\* refused castling because a square of the king's path is attacked
C20_WitnessRefused ==
  /\ own_king(board) # {}
  /\ Checkers(board) = {}
  /\ \E home \in { 4, 60 }, d \in { -2, 2 } :
       LET m == [src |-> home, tgt |-> home + d, piece |-> king(board.side)]
       IN /\ home = (IF board.side = White THEN 60 ELSE 4)
          /\ RightNeeded(board, m) \in board.castling_rights
          /\ \A t \in StrictlyBetween(home, RookCorner(m)) : EmptyAt(board, t)
          /\ \E t \in KingPath(m) : Attacked(board, t, NotColor(board.side))
          /\ ~\E c \in generate_moves(board) : c.is_castle /\ c.tgt = m.tgt


(***************************************************************************)
(* Properties of the history scores                                        *)
(***************************************************************************)
HISTORY_MAX == 16384
InHistoryRange(x) == -HISTORY_MAX <= x /\ x <= HISTORY_MAX

\* C26: after any sequence of updates the score is within -16384..16384,
\* and from a score in that range the i32 sum of taper_bonus stays in it for
\* every bonus the search can give, so the cast to i16 changes nothing
C26_HistoryBounded ==
  /\ InHistoryRange(history)
  /\ \A depth \in 1..MaxHistoryDepth, sign \in { -1, 1 } :
       LET bonus == sign * history_bonus(depth)
       IN /\ Abs(bonus) <= HISTORY_BONUS_CAP
          /\ InHistoryRange(taper_sum(bonus, history))
          /\ taper_bonus(bonus, history) = taper_sum(bonus, history)

\* the score stands at the upper limit and a further full bonus leaves it there
C26_Witness ==
  /\ history = HISTORY_MAX
  /\ update(history, history_bonus(MaxHistoryDepth), TRUE, 0) = HISTORY_MAX


(***************************************************************************)
(* Properties of the table size                                            *)
(***************************************************************************)
IsPowerOfTwo(n) == \E k \in 0..30 : n = 2 ^ k

\* C27: the table built by TT::new(mb_size) has a power of two of slots that
\* fits in mb_size MiB, bitmask is that length minus one, and every hash
\* indexes a slot inside the table
C27_IndexInsideTable ==
  /\ IsPowerOfTwo(tt.len)
  /\ tt.len * TTFieldSize <= mb_size * 1024 * 1024
  /\ tt.bitmask = tt.len - 1
  /\ \A hash \in TTKeys \cup { NULL_KEY } : tt_index(tt, hash) < tt.len

\* the same for a table of at least one MiB
C27_IndexInsideTableFromOneMb == mb_size >= 1 => C27_IndexInsideTable


(***************************************************************************)
(* Properties of the stop flag between searches                            *)
(***************************************************************************)
\* C30: while a go search runs and no stop line was read since it started,
\* the shared stop flag is false and the search is not stopped
C30_StopOnlyForRunningSearch ==
  (search.pc # "idle" /\ ~uci_hist.stop_during_go) =>
    (~stop /\ ~search.stop)


(***************************************************************************)
(* Properties of the iteration loop                                        *)
(***************************************************************************)
\* the same depth is searched again only with one more side of the window open
Widened ==
  \/ search'.alpha = -MATE /\ search.alpha > -MATE /\ search'.beta = search.beta
  \/ search'.beta = MATE /\ search.beta < MATE /\ search'.alpha = search.alpha
SearchedAgain ==
  /\ search.pc = "root"
  /\ search'.pc = "loop"
  /\ search'.depth = search.depth
  /\ ~search'.stop
  /\ search'.depth <= search'.clock.depth
  /\ Abs(search'.eval) < MATE - MAX_DEPTH
\* the loop is left when stop is set, the clock refuses the depth or the
\* last score is a mate score
EndNow ==
  \/ search.stop
  \/ search.depth > search.clock.depth
  \/ Abs(search.eval) >= MATE - MAX_DEPTH

\* C25: iterative_search returns; a depth is searched again only after a
\* fail-low opened alpha to -MATE or a fail-high opened beta to MATE, hence at
\* most three times; no search_root runs at depth MAX_DEPTH or more; and the
\* loop is left at once when stop is set, start_check fails or the score is a
\* mate score
C25_IterativeSearchTerminates ==
  /\ <>(search.pc = "done")
  /\ [][SearchedAgain => Widened]_vars
  /\ [](search.pc = "root" => search.depth < MAX_DEPTH)
  /\ [][(search.pc = "loop" /\ EndNow) => search'.pc = "done"]_vars

\* the third search of a depth: both sides of an aspiration window are open
C25_Witness ==
  /\ search.pc = "root"
  /\ search.depth > ASPIRATION_THRESHOLD
  /\ search.alpha = -MATE
  /\ search.beta = MATE

\* the clock never refused and the loop ended at the last depth
C25_WitnessMaxDepth ==
  /\ search.pc = "done"
  /\ search.result[2] = MAX_DEPTH - 1

(***************************************************************************)
(* Claims about negamax, on SpecNegamax                                    *)
(***************************************************************************)
Frames == { stack[j] : j \in 1..Len(stack) }
NegamaxReturned == ret.fn = "negamax"
RetPosition == Position_new(position.game, ret.node)

\* C21: the entry negamax stores when a node finishes carries as best_move
\* the move that last raised alpha, whenever a move did
C21_StoredMoveRaisedAlpha ==
  (NegamaxReturned /\ ret.stored # None /\ ret.raised # NULL_MOVE)
    => ret.stored.best_move = ret.raised

\* what does hold: the stored move is the first move searched
C21_StoredMoveIsFirst ==
  (NegamaxReturned /\ ret.stored # None)
    => ret.stored.best_move = Position_generate_moves(RetPosition,
                                IF ret.entry = None THEN NULL_MOVE ELSE ret.entry.best_move)[1]

\* the searches of the move the caller stands on, by the place of the call
MoveSearches == { "first", "lmr", "pvs", "full" }
Caller(j) == stack[j - 1]
\* the zero-based index of the move the frame stands on
Index(f) == f.i - 1

\* C22: negamax searches a move at depth - 2 only if its zero-based index is
\* at least 4, depth >= 3, the side to move is not in check and the move is
\* quiet; every search of the moves at indices 1, 2 and 3 is at depth - 1
C22_LmrFromIndexFour ==
  \A j \in 2..Len(stack) :
    (Caller(j).fn = "negamax" /\ stack[j].site \in MoveSearches) =>
      /\ stack[j].d0 \in { Caller(j).depth - 1, Caller(j).depth - 2 }
      /\ stack[j].d0 = Caller(j).depth - 2 =>
           /\ Index(Caller(j)) >= 4
           /\ Caller(j).depth >= 3
           /\ ~Caller(j).in_check
           /\ ~Position_is_capture(Position_new(position.game, Caller(j).node), Caller(j).m)
           /\ ~Position_is_promotion(Position_new(position.game, Caller(j).node), Caller(j).m)
      /\ Index(Caller(j)) \in 1..3 => stack[j].d0 = Caller(j).depth - 1

\* what does hold: the same with index 3 as the first reduced one
C22_LmrFromIndexThree ==
  \A j \in 2..Len(stack) :
    (Caller(j).fn = "negamax" /\ stack[j].site \in MoveSearches) =>
      /\ stack[j].d0 \in { Caller(j).depth - 1, Caller(j).depth - 2 }
      /\ stack[j].d0 = Caller(j).depth - 2 =>
           /\ Index(Caller(j)) >= 3
           /\ Caller(j).depth >= 3
           /\ ~Caller(j).in_check
           /\ ~Position_is_capture(Position_new(position.game, Caller(j).node), Caller(j).m)
           /\ ~Position_is_promotion(Position_new(position.game, Caller(j).node), Caller(j).m)
      /\ Index(Caller(j)) \in 1..2 => stack[j].d0 = Caller(j).depth - 1

\* the window of a call after mate distance pruning, before the table is read
PrunedAlpha(x) == Max(-MATE + Len(x.node), x.a0)
PrunedBeta(x) == Min(MATE - Len(x.node) - 1, x.b0)
\* a frame of negamax whose window is still the one the table entry left
AfterProbe(f) == f.fn = "negamax" /\ f.pc \in { "after_null", "after_first" } /\ f.entry # None
TTPaths == { "tt_exact", "tt_cutoff" }
Deep(x) == x.entry.depth >= x.depth
StoredValue(x) == get_value(x.entry, Len(x.node))
RaisedAlpha(x) ==
  IF x.entry.flag = "Lower" THEN Max(PrunedAlpha(x), StoredValue(x)) ELSE PrunedAlpha(x)
LoweredBeta(x) ==
  IF x.entry.flag = "Upper" THEN Min(PrunedBeta(x), StoredValue(x)) ELSE PrunedBeta(x)

\* C23: a table entry of smaller depth than the remaining depth leaves alpha
\* and beta as they were and returns nothing; one of depth >= depth returns
\* its value if Exact, raises alpha to the value if Lower, lowers beta to the
\* value if Upper, and returns its value when that leaves alpha >= beta
C23_TTHit ==
  /\ \A f \in Frames :
       AfterProbe(f) =>
         IF ~Deep(f)
         THEN f.alpha = PrunedAlpha(f) /\ f.beta = PrunedBeta(f)
         ELSE /\ f.entry.flag # "Exact"
              /\ f.alpha = RaisedAlpha(f)
              /\ f.beta = LoweredBeta(f)
              /\ f.entry.flag = "Lower" => f.alpha >= StoredValue(f)
              /\ f.entry.flag = "Upper" => f.beta <= StoredValue(f)
              /\ f.alpha < f.beta
  /\ (NegamaxReturned /\ ret.entry # None) =>
       IF Deep(ret) /\ (ret.entry.flag = "Exact" \/ RaisedAlpha(ret) >= LoweredBeta(ret))
       THEN ret.path \in TTPaths /\ ret.value = StoredValue(ret)
       ELSE ret.path \notin TTPaths

\* an Exact entry of smaller depth was found and the node is searched on
C23_Witness ==
  \E f \in Frames : AfterProbe(f) /\ ~Deep(f) /\ f.entry.flag = "Exact"
\* a Lower entry of enough depth raised alpha, an Upper one closed the window
C23_WitnessRaised ==
  \E f \in Frames : AfterProbe(f) /\ Deep(f) /\ f.entry.flag = "Lower"
                      /\ f.alpha > PrunedAlpha(f)
C23_WitnessCutoff == NegamaxReturned /\ ret.path = "tt_cutoff" /\ ret.entry.flag = "Upper"
C23_WitnessExact == NegamaxReturned /\ ret.path = "tt_exact"

\* the returns of negamax that come before its move loop
EarlyPaths == { "stop", "quiescence", "mate_distance", "draw", "tt_exact", "tt_cutoff",
                "null_cutoff" }
NoMoveExists(node) == Position_move_count(Position_new(position.game, node)) = 0
MateOrZero(node) ==
  IF Position_king_in_check(Position_new(position.game, node)) THEN -MATE + Len(node) ELSE 0

\* C24 as stated: a call of negamax on a node without legal moves returns
\* -MATE + ply in check and 0 otherwise, and stores no entry
C24_NoMoveNodeReturnsMateOrZero ==
  (NegamaxReturned /\ ~ret.stopped /\ NoMoveExists(ret.node))
    => ret.value = MateOrZero(ret.node) /\ ret.stored = None

\* C24: a call of negamax that reaches its move loop on a node without legal
\* moves returns -MATE + ply in check and 0 otherwise, and the table is the
\* same after the call
C24_NoMoveTried ==
  /\ [](  (NegamaxReturned /\ NoMoveExists(ret.node) /\ ret.path \notin EarlyPaths)
            => ret.value = MateOrZero(ret.node) /\ ret.stored = None)
  /\ [][ (/\ Running("negamax", "entry") \/ Running("negamax", "after_null")
          /\ NoMoveExists(Top.node)
          /\ Len(stack') < Len(stack)) => tt' = tt ]_vars

C24_Witness == NegamaxReturned /\ ret.path = "mate" /\ ret.value = -MATE + Len(ret.node)
C24_WitnessStalemate == NegamaxReturned /\ ret.path = "stalemate" /\ ret.value = 0

\* C28: a call of negamax with alpha < beta that stop did not interrupt
\* returns a value v with alpha <= v <= beta
C28_FailHard ==
  (NegamaxReturned /\ ~ret.stopped /\ ret.a0 < ret.b0)
    => (ret.a0 <= ret.value /\ ret.value <= ret.b0)

\* what does hold: the same on the returns that clamp
ClampedPaths == { "quiescence", "null_cutoff", "end" }
C28_FailHardWhereClamped ==
  (NegamaxReturned /\ ~ret.stopped /\ ret.a0 < ret.b0 /\ ret.path \in ClampedPaths)
    => (ret.a0 <= ret.value /\ ret.value <= ret.b0)

\* C29: stop is never set back, once it is set the table is never written
\* again, and a call that returns with stop set has stored nothing
C29_NoInsertAfterStop ==
  /\ [][ (search.stop => search'.stop) /\ (search'.stop => tt' = tt) ]_vars
  /\ []( (ret # NoReturn /\ ret.stopped) => ret.stored = None )

\* stop is set with calls of negamax under search_root still to return, and
\* entries written before
C29_Witness ==
  /\ search.stop
  /\ Len(stack) >= 3
  /\ \E f \in Frames : f.fn = "negamax" /\ f.pc # "entry"
  /\ tt # TT_default

====
